---- MODULE Spec2Model ----
(***************************************************************************)
(* A model of the conversation parser (chatgpt_parser).                    *)
(*                                                                         *)
(* Python values are modelled as tagged records, so that the code's        *)
(* isinstance tests, truthiness tests, dict.get defaults and `in` tests    *)
(* are computed as Python computes them:                                   *)
(*   None            [ty |-> "None"]                                       *)
(*   str             [ty |-> "str",  v |-> <<characters>>]                 *)
(*   int / float     [ty |-> "num",  v |-> integer]                        *)
(*   bool            [ty |-> "bool", v |-> BOOLEAN]                        *)
(*   list            [ty |-> "list", v |-> <<values>>]                     *)
(*   dict            [ty |-> "dict", v |-> function from keys to values]   *)
(* Dict keys are TLA+ strings; a str value used as a key is converted by   *)
(* KeyOf.                                                                  *)
(***************************************************************************)
EXTENDS Integers, Sequences, FiniteSets, TLC

VARIABLES
    conversation_data,  \* the argument of extract_linear_conversation
    utcoffset,          \* the process's local time zone, seconds east of UTC
    current_node_id,    \* the walk's pointer (conversation.py:19, 109)
    messages,           \* the accumulator (conversation.py:21), newest first
    result,             \* the returned list, None until the call returns
    pc,                 \* "loop", "done" (returned) or "raised"
    turn,               \* the argument of flatten_turn, keys in insertion order
    agent_mode,         \* the agent key given to flatten_turn
    flat,               \* the values returned by the calls of flatten_turn
    args,               \* the parsed command line (__main__.py:60)
    input_file,         \* the file named by --input
    raw_data,           \* the loaded, then sampled, conversations
    seed,               \* the random seed of the run, None without sampling
    conv_no,            \* the number i of the conversation in the batch loop
    processed,          \* the conversation being built (processor.py:33)
    msg_no,             \* how many linear messages the turn loop has handled
    processed_conversations,    \* __main__.py:99
    llm_calls,          \* every request sent to the LLM, in order
    output_file,        \* what save_conversations wrote, None before
    exit_code,          \* the exit status of the process, None while it runs
    mpc,                \* where main is
    store_file,         \* the file given to save_conversations and to load
    saved,              \* the arguments of the last save that wrote the file
    loaded,             \* what load_processed_conversations did, None before
    current_conversations,  \* the viewer's global state (app.py:9-11)
    current_file,
    current_metadata,
    response,           \* the viewer's answer to the last request
    today,              \* the date of the run, <<month, day>>
    directories,        \* the output directories that exist
    named,              \* the calls of generate_output_filename and their results
    switching,          \* the load_file request in flight and where it is
    reading,            \* the index request in flight and what it has read
    prng,               \* what random.sample has returned, by seed and arguments
    previous            \* the preceding run of main, None in the first run

\* The state of the walk, and the state of everything else.
walk == <<conversation_data, utcoffset, current_node_id, messages, result, pc>>

flattener == <<turn, agent_mode, flat>>

cli == <<args, input_file, raw_data, seed, conv_no, processed, msg_no,
         processed_conversations, llm_calls, output_file, exit_code, mpc>>

store == <<store_file, saved, loaded>>

viewer == <<current_conversations, current_file, current_metadata, response>>

namer == <<today, directories, named>>

race == <<switching, reading>>

sampler == <<prng, previous>>

extras == <<namer, race, sampler>>

others == <<flattener, cli, store, viewer, extras>>

vars == <<walk, others>>

-----------------------------------------------------------------------------
(* Python values *)

None == [ty |-> "None"]
Str(s) == [ty |-> "str", v |-> s]
Num(n) == [ty |-> "num", v |-> n]
Bool(b) == [ty |-> "bool", v |-> b]
List(s) == [ty |-> "list", v |-> s]
Dict(f) == [ty |-> "dict", v |-> f]
EmptyDict == Dict(<<>>)
EmptyStr == Str(<<>>)

IsStr(x) == x.ty = "str"
IsList(x) == x.ty = "list"
IsDict(x) == x.ty = "dict"

\* bool(x): None, 0, False, "", [] and {} are falsy.
Truthy(x) ==
    CASE x.ty = "None" -> FALSE
      [] x.ty = "str"  -> Len(x.v) > 0
      [] x.ty = "num"  -> x.v # 0
      [] x.ty = "bool" -> x.v
      [] x.ty = "list" -> Len(x.v) > 0
      [] x.ty = "dict" -> DOMAIN x.v # {}

\* key in d
Has(d, k) == k \in DOMAIN d.v

\* d.get(k, default)
Get(d, k, default) == IF Has(d, k) THEN d.v[k] ELSE default

\* The dict key a str value denotes.
RECURSIVE JoinChars(_)
JoinChars(cs) == IF cs = <<>> THEN "" ELSE Head(cs) \o JoinChars(Tail(cs))

KeyOf(s) == JoinChars(s.v)

\* Returns the accumulator as collected, newest first.
Reverse_Forgotten(s) == s

\* lst[::-1]
Reverse(s) == [i \in 1..Len(s) |-> s[Len(s) + 1 - i]]

\* sub in s, for two character sequences
Contains(sub, s) ==
    \E i \in 1..(Len(s) - Len(sub) + 1) : SubSeq(s, i, i + Len(sub) - 1) = sub

UpperAlpha == <<"A","B","C","D","E","F","G","H","I","J","K","L","M",
                "N","O","P","Q","R","S","T","U","V","W","X","Y","Z">>
LowerAlpha == <<"a","b","c","d","e","f","g","h","i","j","k","l","m",
                "n","o","p","q","r","s","t","u","v","w","x","y","z">>

LowerChar(c) ==
    IF \E i \in 1..Len(UpperAlpha) : UpperAlpha[i] = c
    THEN LowerAlpha[CHOOSE i \in 1..Len(UpperAlpha) : UpperAlpha[i] = c]
    ELSE c

\* s.lower()
Lower(s) == [i \in 1..Len(s) |-> LowerChar(s[i])]

-----------------------------------------------------------------------------
(* datetime.fromtimestamp(ts).strftime('%Y-%m-%d %H:%M:%S') *)

DigitChars == <<"0","1","2","3","4","5","6","7","8","9">>

Pad2(n) == <<DigitChars[((n \div 10) % 10) + 1], DigitChars[(n % 10) + 1]>>

Pad4(n) == Pad2(n \div 100) \o Pad2(n % 100)

\* The proleptic Gregorian date <<year, month, day>> of a day number counted
\* from 1970-01-01, as the C library's localtime computes it.
CivilFromDays(days) ==
    LET z   == days + 719468
        era == z \div 146097
        doe == z - era * 146097
        yoe == (doe - doe \div 1460 + doe \div 36524 - doe \div 146096) \div 365
        doy == doe - (365 * yoe + yoe \div 4 - yoe \div 100)
        mp  == (5 * doy + 2) \div 153
        d   == doy - (153 * mp + 2) \div 5 + 1
        m   == IF mp < 10 THEN mp + 3 ELSE mp - 9
        y   == yoe + era * 400 + (IF m <= 2 THEN 1 ELSE 0)
    IN  <<y, m, d>>

\* The local-time string of an epoch time, off seconds east of UTC.
Strftime(ts, off) ==
    LET local == ts + off
        ymd   == CivilFromDays(local \div 86400)
        sod   == local % 86400
    IN  Pad4(ymd[1]) \o <<"-">> \o Pad2(ymd[2]) \o <<"-">> \o Pad2(ymd[3])
        \o <<" ">> \o Pad2(sod \div 3600) \o <<":">> \o Pad2((sod % 3600) \div 60)
        \o <<":">> \o Pad2(sod % 60)

\* readable_time (conversation.py:65-68)
ReadableTime(message_data, off) ==
    LET timestamp == Get(message_data, "create_time", None)
    IN  IF Truthy(timestamp) THEN Str(Strftime(timestamp.v, off)) ELSE None

-----------------------------------------------------------------------------
(* Building one clean message (conversation.py:32-106) *)

STR_image == <<"i","m","a","g","e">>

\* The test of conversation.py:50 on a dict part.
IsImagePart(part) ==
    \/ Contains(STR_image, Lower(Get(part, "content_type", EmptyStr).v))
    \/ Has(part, "asset_pointer")

\* Forgets to copy image_url.
ImageInfo_NoUrl(part) ==
    LET copied == {k \in {"asset_pointer", "metadata"} : Has(part, k)}
    IN  Dict([k \in {"content_type"} \cup copied |->
                IF k = "content_type" THEN Get(part, "content_type", EmptyStr)
                ELSE part.v[k]])

\* image_info (conversation.py:49-60)
ImageInfo(part) ==
    LET copied == {k \in {"asset_pointer", "image_url", "metadata"} : Has(part, k)}
    IN  Dict([k \in {"content_type"} \cup copied |->
                IF k = "content_type" THEN Get(part, "content_type", EmptyStr)
                ELSE part.v[k]])

\* Joins the text parts with a blank, as ' '.join would.
RECURSIVE TextOfParts_Spaced(_)
TextOfParts_Spaced(ps) ==
    IF ps = <<>> THEN <<>>
    ELSE (IF IsStr(Head(ps)) THEN Head(ps).v \o <<" ">> ELSE <<>>)
         \o TextOfParts_Spaced(Tail(ps))

\* text_content after the loop of conversation.py:41-44 over a list of parts
RECURSIVE TextOfParts(_)
TextOfParts(ps) ==
    IF ps = <<>> THEN <<>>
    ELSE (IF IsStr(Head(ps)) THEN Head(ps).v ELSE <<>>) \o TextOfParts(Tail(ps))

\* images after the loop of conversation.py:41-61 over a list of parts
RECURSIVE ImagesOfParts(_)
ImagesOfParts(ps) ==
    IF ps = <<>> THEN <<>>
    ELSE (IF IsDict(Head(ps)) /\ IsImagePart(Head(ps))
          THEN <<ImageInfo(Head(ps))>> ELSE <<>>) \o ImagesOfParts(Tail(ps))

\* parts (conversation.py:33-34)
PartsOf(message_data) == Get(message_data.v["content"], "parts", List(<<>>))

\* conversation.py:40
PartsUsable(parts) == IsList(parts) /\ Len(parts.v) > 0

TextContent(message_data) ==
    LET parts == PartsOf(message_data)
    IN  IF PartsUsable(parts) THEN TextOfParts(parts.v) ELSE <<>>

Images(message_data) ==
    LET parts == PartsOf(message_data)
    IN  IF PartsUsable(parts) THEN ImagesOfParts(parts.v) ELSE <<>>

\* conversation.py:32
HasContent(message_data) ==
    Truthy(message_data) /\ Truthy(Get(message_data, "content", None))

\* Keeps a message only when it has text.
Emits_TextOnly(message_data) ==
    /\ HasContent(message_data)
    /\ Len(TextContent(message_data)) > 0

\* conversation.py:32 and 64: the node adds a record to messages
Emits(message_data) ==
    /\ HasContent(message_data)
    /\ \/ Len(TextContent(message_data)) > 0
       \/ Len(Images(message_data)) > 0

\* message_data['author']['role'] raises KeyError (conversation.py:73)
RoleMissing(message_data) ==
    IF Has(message_data, "author")
    THEN ~Has(message_data.v["author"], "role")
    ELSE TRUE

\* Copies a metadata key only when its value is truthy
\* (if metadata.get('weight'): ...).
OptionalKeys_Truthy(message_data) ==
    LET metadata == Get(message_data, "metadata", EmptyDict)
    IN  (IF Len(Images(message_data)) > 0 THEN {"images"} ELSE {})
        \cup (IF Has(metadata, "finish_details")
                 /\ Has(metadata.v["finish_details"], "type")
              THEN {"finish_reason"} ELSE {})
        \cup {k \in {"weight", "end_turn", "recipient", "citations", "command"} :
                Truthy(Get(metadata, k, None))}

\* The optional keys of clean_msg (conversation.py:80-104)
OptionalKeys(message_data) ==
    LET metadata == Get(message_data, "metadata", EmptyDict)
    IN  (IF Len(Images(message_data)) > 0 THEN {"images"} ELSE {})
        \cup (IF Has(metadata, "finish_details")
                 /\ Has(metadata.v["finish_details"], "type")
              THEN {"finish_reason"} ELSE {})
        \cup {k \in {"weight", "end_turn", "recipient", "citations", "command"} :
                Has(metadata, k)}

\* clean_msg (conversation.py:65-104)
CleanMsg(message_data, off) ==
    LET metadata == Get(message_data, "metadata", EmptyDict)
    IN  Dict([k \in {"role", "text", "timestamp", "model_slug"}
                    \cup OptionalKeys(message_data) |->
                CASE k = "role" -> message_data.v["author"].v["role"]
                  [] k = "text" -> Str(TextContent(message_data))
                  [] k = "timestamp" -> ReadableTime(message_data, off)
                  [] k = "model_slug" -> Get(metadata, "model_slug", None)
                  [] k = "images" -> List(Images(message_data))
                  [] k = "finish_reason" -> metadata.v["finish_details"].v["type"]
                  [] OTHER -> metadata.v[k]])

-----------------------------------------------------------------------------
(* The inputs: raw conversations of the export format *)

\* The number of nodes of the mappings that decide the shape of the walk
MaxNodes == 3

\* The number of nodes of the single chains that decide the shape of a record
MaxChain == 2

NodeNames == <<"a", "b", "c", "d", "e">>

\* The keys of mapping
NodeKeys == {NodeNames[i] : i \in 1..MaxNodes}

IdOf(k) == Str(<<k>>)

\* An id that no mapping holds
MissingId == Str(<<"x">>)

\* The cap on the accumulator: an acyclic walk appends at most MaxNodes records.
MaxMessages == MaxNodes + 1

S_user == Str(<<"u","s","e","r">>)
S_assistant == Str(<<"a","s","s","i","s","t","a","n","t">>)
S_system == Str(<<"s","y","s","t","e","m">>)
S_tool == Str(<<"t","o","o","l">>)
S_Hi == Str(<<"H","i">>)
S_ok == Str(<<"o","k">>)
S_gpt4 == Str(<<"g","p","t","-","4">>)
S_stop == Str(<<"s","t","o","p">>)

\* create_time values of the archive (epoch seconds)
T0 == Num(0)
T1 == Num(1234567890)
T2 == Num(1234567891)

\* Structured parts
ImgFull ==
    Dict([content_type |-> Str(<<"i","m","a","g","e","_","a","s","s","e","t","_","p","o","i","n","t","e","r">>),
          asset_pointer |-> Str(<<"f","i","l","e","-","a","b","c">>),
          image_url |-> Str(<<"u">>),
          metadata |-> Dict([width |-> Num(512)]),
          size_bytes |-> Num(9)])
ImgByType == Dict([content_type |-> Str(<<"I","M","A","G","E">>), image_url |-> Str(<<"v">>)])
ImgByAsset == Dict([asset_pointer |-> Str(<<"f","i","l","e","-","x","y","z">>)])
OtherPart == Dict([content_type |-> Str(<<"c","o","d","e">>), text |-> Str(<<"x">>)])

\* content.parts values
PartsText == List(<<S_Hi>>)
PartsMixed == List(<<S_Hi, ImgFull, S_ok>>)
PartsImages == List(<<ImgByType, OtherPart, ImgByAsset>>)
PartsNothing == List(<<OtherPart, None, EmptyStr>>)
PartsNotList == S_Hi

\* message metadata values
MdSlug == Dict([model_slug |-> S_gpt4])
MdFinish ==
    Dict([model_slug |-> S_gpt4, finish_details |-> Dict([type |-> S_stop]),
          weight |-> Num(1), end_turn |-> Bool(TRUE)])
MdTool ==
    Dict([finish_details |-> Dict([stop_tokens |-> List(<<>>)]),
          recipient |-> Str(<<"a","l","l">>), citations |-> List(<<>>),
          command |-> Str(<<"s","e","a","r","c","h">>), weight |-> None])

Content(ps) == Dict([parts |-> ps])
Author(r) == Dict([role |-> r])

\* A raw message: the keys of opt are added to content.
Message(parts, opt) == Dict(("content" :> Content(parts)) @@ opt)

\* Messages that decide the shape of one record
RichMsgs ==
    { None,
      Message(PartsText, [author |-> Author(S_user), create_time |-> T1]),
      Message(PartsText, [author |-> Author(S_assistant), create_time |-> T2]),
      EmptyDict,
      Dict([author |-> Author(S_system)]),
      Dict([author |-> Author(S_user), content |-> EmptyDict]),
      Dict([author |-> Author(S_user), create_time |-> T1,
            content |-> Dict([content_type |-> Str(<<"t","e","x","t">>)])]),
      Message(PartsText, [author |-> Author(S_system), create_time |-> None,
                          metadata |-> MdSlug]),
      Message(PartsText, [author |-> Author(S_assistant), create_time |-> T0,
                          metadata |-> MdFinish]),
      Message(PartsText, [create_time |-> T1]),
      Message(PartsMixed, [author |-> Author(S_user), create_time |-> T2,
                           metadata |-> EmptyDict]),
      Message(PartsImages, [author |-> Author(S_tool), metadata |-> MdTool]),
      Message(PartsNothing, [author |-> Author(S_user), create_time |-> T1]),
      Message(PartsNotList, [author |-> Author(S_user), create_time |-> T1]),
      Message(List(<<>>), [author |-> Author(S_assistant), create_time |-> T2]) }

\* parent pointers: none, a node of mapping, or a dangling id
Parents == {None, MissingId} \cup {IdOf(k) : k \in NodeKeys}

Node(message, parent) == Dict([message |-> message, parent |-> parent])

Conv(nodes, cur) == Dict([mapping |-> Dict(nodes), current_node |-> cur])

\* Conversations without a mapping key, or without any key
OddConvs == {EmptyDict, Dict([current_node |-> IdOf(NodeNames[1])])}

\* The position of a key in NodeNames
IndexOf(k) == CHOOSE i \in 1..Len(NodeNames) : NodeNames[i] = k

\* The text message of node k in the mappings that decide the shape of the
\* walk: its text is the name of the node and its create_time grows with the
\* position of the name, so that no two nodes yield the same record.
NodeMsg(k) ==
    Message(List(<<Str(<<k>>)>>),
            [author |-> Author(IF IndexOf(k) % 2 = 1 THEN S_user ELSE S_assistant),
             create_time |-> Num(T1.v + IndexOf(k))])

\* The mapping whose node k has the parent pointer par[k] and, when
\* bears[k], the message NodeMsg(k), a null message otherwise
StructMapping(par, bears) ==
    [k \in NodeKeys |-> Node(IF bears[k] THEN NodeMsg(k) ELSE None, par[k])]

\* The parent of the i-th node of a single chain
ChainParent(i) == IF i = 1 THEN None ELSE IdOf(NodeNames[i - 1])

\* The single chain a <- b <- ... carrying the messages ms, walked from its
\* last node
ChainConv(ms) ==
    Conv([k \in {NodeNames[i] : i \in 1..MaxChain} |->
             Node(ms[IndexOf(k)], ChainParent(IndexOf(k)))],
         IdOf(NodeNames[MaxChain]))

\* Local time zones of the process
UtcOffsets == {0, 3600, -18000}

-----------------------------------------------------------------------------
(* The walk of extract_linear_conversation (conversation.py:16-112) *)

\* No call of flatten_turn is under way.
FlattenerIdle ==
    /\ turn = <<>>
    /\ agent_mode = "summarised_conversation"
    /\ flat = <<>>

\* main is not running.
CliIdle ==
    /\ args = None
    /\ input_file = None
    /\ raw_data = None
    /\ seed = None
    /\ conv_no = 0
    /\ processed = None
    /\ msg_no = 0
    /\ processed_conversations = <<>>
    /\ llm_calls = <<>>
    /\ output_file = None
    /\ exit_code = None
    /\ mpc = "idle"

\* Nothing is saved or loaded.
StoreIdle ==
    /\ store_file = None
    /\ saved = None
    /\ loaded = None

\* The viewer is not running.
ViewerIdle ==
    /\ current_conversations = None
    /\ current_file = None
    /\ current_metadata = None
    /\ response = None

\* The other components are at rest while the walk alone is examined.
\* generate_output_filename is not examined.
NamerIdle ==
    /\ today = <<1, 1>>
    /\ directories = {}
    /\ named = <<>>

\* No viewer request is in flight.
RaceIdle ==
    /\ switching = [at |-> "idle"]
    /\ reading = [at |-> "idle"]

\* Nothing was drawn and no run came before.
SamplerIdle ==
    /\ prng = {}
    /\ previous = None

ExtrasIdle == NamerIdle /\ RaceIdle /\ SamplerIdle

OthersIdle == FlattenerIdle /\ CliIdle /\ StoreIdle /\ ViewerIdle /\ ExtrasIdle

\* mapping (conversation.py:18)
Mapping(conv) == Get(conv, "mapping", EmptyDict)

\* node (conversation.py:25)
NodeAt(conv, id) == Get(Mapping(conv), KeyOf(id), None)

\* Forgets to move the pointer.
ParentOf_Stay(node) == current_node_id

\* node.get('parent') (conversation.py:109)
ParentOf(node) == Get(node, "parent", None)

\* The loop is about to run its body on a node (conversation.py:24-27).
AtNode ==
    /\ pc = "loop"
    /\ Truthy(current_node_id)
    /\ Truthy(NodeAt(conversation_data, current_node_id))

\* Ends the walk at a node whose message is null.
Skip_BreakOnNull ==
    /\ AtNode
    /\ LET node == NodeAt(conversation_data, current_node_id)
       IN  /\ ~Emits(Get(node, "message", None))
           /\ IF Get(node, "message", None) = None
              THEN /\ result' = List(Reverse(messages))
                   /\ pc' = "done"
                   /\ UNCHANGED current_node_id
              ELSE /\ current_node_id' = ParentOf(node)
                   /\ UNCHANGED <<result, pc>>
    /\ UNCHANGED <<conversation_data, utcoffset, messages>>
    /\ UNCHANGED others

\* An iteration on a node that adds no record (conversation.py:29-32, 64, 109)
Skip ==
    /\ AtNode
    /\ LET node == NodeAt(conversation_data, current_node_id)
       IN  /\ ~Emits(Get(node, "message", None))
           /\ current_node_id' = ParentOf(node)
    /\ UNCHANGED <<conversation_data, utcoffset, messages, result, pc>>
    /\ UNCHANGED others

\* Appends a clean message and takes the message out of its node.
Emit_Consumes ==
    /\ AtNode
    /\ Len(messages) < MaxMessages
    /\ LET node == NodeAt(conversation_data, current_node_id)
           message_data == Get(node, "message", None)
       IN  /\ Emits(message_data)
           /\ ~RoleMissing(message_data)
           /\ messages' = Append(messages, CleanMsg(message_data, utcoffset))
           /\ current_node_id' = ParentOf(node)
           /\ conversation_data' =
                Dict([conversation_data.v EXCEPT !["mapping"] =
                   Dict([@.v EXCEPT ![KeyOf(current_node_id)] =
                      Dict([@.v EXCEPT !["message"] = None])])])
    /\ UNCHANGED <<utcoffset, result, pc>>
    /\ UNCHANGED others

\* An iteration that appends a clean message (conversation.py:29-109)
Emit ==
    /\ AtNode
    /\ Len(messages) < MaxMessages
    /\ LET node == NodeAt(conversation_data, current_node_id)
           message_data == Get(node, "message", None)
       IN  /\ Emits(message_data)
           /\ ~RoleMissing(message_data)
           /\ messages' = Append(messages, CleanMsg(message_data, utcoffset))
           /\ current_node_id' = ParentOf(node)
    /\ UNCHANGED <<conversation_data, utcoffset, result, pc>>
    /\ UNCHANGED others

\* An iteration whose message has text or images but no author role: the
\* subscript of conversation.py:73 raises KeyError out of the call.
Raise ==
    /\ AtNode
    /\ LET message_data ==
               Get(NodeAt(conversation_data, current_node_id), "message", None)
       IN  Emits(message_data) /\ RoleMissing(message_data)
    /\ pc' = "raised"
    /\ UNCHANGED <<conversation_data, utcoffset, current_node_id, messages, result>>
    /\ UNCHANGED others

\* Leaves the loop also when as many records as mapping has nodes were
\* collected.
LoopExit_Guarded ==
    /\ pc = "loop"
    /\ \/ ~Truthy(current_node_id)
       \/ Len(messages) >= Cardinality(DOMAIN Mapping(conversation_data).v)
    /\ result' = List(Reverse(messages))
    /\ pc' = "done"
    /\ UNCHANGED <<conversation_data, utcoffset, current_node_id, messages>>
    /\ UNCHANGED others

\* The while condition is false (conversation.py:24): return messages[::-1].
LoopExit ==
    /\ pc = "loop"
    /\ ~Truthy(current_node_id)
    /\ result' = List(Reverse(messages))
    /\ pc' = "done"
    /\ UNCHANGED <<conversation_data, utcoffset, current_node_id, messages>>
    /\ UNCHANGED others

\* Subscripts mapping with the id (mapping[current_node_id]): KeyError.
Break_Raises ==
    /\ pc = "loop"
    /\ Truthy(current_node_id)
    /\ ~Truthy(NodeAt(conversation_data, current_node_id))
    /\ pc' = "raised"
    /\ UNCHANGED <<conversation_data, utcoffset, current_node_id, messages, result>>
    /\ UNCHANGED others

\* The id is not in mapping, or its node is empty (conversation.py:25-27):
\* break, then return messages[::-1].
Break ==
    /\ pc = "loop"
    /\ Truthy(current_node_id)
    /\ ~Truthy(NodeAt(conversation_data, current_node_id))
    /\ result' = List(Reverse(messages))
    /\ pc' = "done"
    /\ UNCHANGED <<conversation_data, utcoffset, current_node_id, messages>>
    /\ UNCHANGED others

Next == Skip \/ Emit \/ Raise \/ LoopExit \/ Break

\* The keys and the messages of the two-node cycles
LoopKeys == {NodeNames[1], NodeNames[2]}
LoopMsgs == {None, Message(PartsText, [author |-> Author(S_user), create_time |-> T1]),
             Message(PartsText, [create_time |-> T1])}

\* Every mapping over NodeKeys with arbitrary parent pointers (trees, forests,
\* dangling parents, cycles), every choice of the nodes that bear a message,
\* and every current_node.
InitStruct ==
    /\ \E par \in [NodeKeys -> Parents], bears \in [NodeKeys -> BOOLEAN],
          cur \in Parents :
           conversation_data = Conv(StructMapping(par, bears), cur)
    /\ utcoffset = 0

InitOdd ==
    /\ conversation_data \in OddConvs
    /\ utcoffset = 0

\* Every single chain of rich messages, in every time zone.
InitRich ==
    /\ \E ms \in [1..MaxChain -> RichMsgs] : conversation_data = ChainConv(ms)
    /\ utcoffset \in UtcOffsets

\* Two nodes whose parent pointers all stay inside mapping, so that every
\* walk is on a cycle; each node has a text message, a text message without
\* an author, or a null message.
InitLoop ==
    /\ \E par \in [LoopKeys -> LoopKeys], ms \in [LoopKeys -> LoopMsgs],
          cur \in LoopKeys :
           conversation_data =
               Conv([k \in LoopKeys |-> Node(ms[k], IdOf(par[k]))], IdOf(cur))
    /\ utcoffset = 0

Init ==
    /\ InitStruct \/ InitOdd \/ InitRich \/ InitLoop
    /\ current_node_id = Get(conversation_data, "current_node", None)
    /\ messages = <<>>
    /\ result = None
    /\ pc = "loop"
    /\ OthersIdle

Spec == Init /\ [][Next]_vars

-----------------------------------------------------------------------------
(* The vocabulary of the properties *)

\* The ids of the nodes met from id by following parent pointers, nearest
\* first, up to the first id that is falsy or has no node in mapping; at most
\* n of them.
RECURSIVE ChainFrom(_, _, _)
ChainFrom(conv, id, n) ==
    IF n = 0 \/ ~Truthy(id) THEN <<>>
    ELSE IF ~Has(Mapping(conv), KeyOf(id)) THEN <<>>
    ELSE <<id>> \o ChainFrom(conv, Mapping(conv).v[KeyOf(id)].v["parent"], n - 1)

\* The same nodes, the farthest (the root side) first.
RECURSIVE PathTo(_, _, _)
PathTo(conv, id, n) ==
    IF n = 0 \/ ~Truthy(id) THEN <<>>
    ELSE IF ~Has(Mapping(conv), KeyOf(id)) THEN <<>>
    ELSE Append(PathTo(conv, Mapping(conv).v[KeyOf(id)].v["parent"], n - 1), id)

NodeCount(conv) == Cardinality(DOMAIN Mapping(conv).v)

\* No node of mapping is its own ancestor.
Acyclic(conv) ==
    \A k \in DOMAIN Mapping(conv).v :
        Len(ChainFrom(conv, IdOf(k), NodeCount(conv) + 1)) <= NodeCount(conv)

\* The parent chain of current_node, current_node first and the root last.
Chain(conv) ==
    ChainFrom(conv, Get(conv, "current_node", None), NodeCount(conv) + 1)

\* The same chain, the root first and current_node last.
RootPath(conv) ==
    PathTo(conv, Get(conv, "current_node", None), NodeCount(conv) + 1)

MessageOf(conv, id) == Mapping(conv).v[KeyOf(id)].v["message"]

\* The records of the nodes ids, in the order of ids, one per node that
\* bears content.
RECURSIVE RecordsOf(_, _, _)
RecordsOf(conv, ids, off) ==
    IF ids = <<>> THEN <<>>
    ELSE (IF Emits(MessageOf(conv, Head(ids)))
          THEN <<CleanMsg(MessageOf(conv, Head(ids)), off)>> ELSE <<>>)
         \o RecordsOf(conv, Tail(ids), off)

Returned == pc = "done"

-----------------------------------------------------------------------------
\* The number of nodes the walk has still to visit.
Remaining ==
    Len(ChainFrom(conversation_data, current_node_id,
                  NodeCount(conversation_data) + 1))

(* C1: for every conversation whose mapping has no cycle, whatever its
   current_node (one absent from mapping included), the call to
   extract_linear_conversation ends: every iteration of its loop either
   leaves the loop (a return or a raise) or leaves fewer nodes to visit, and
   the records collected plus the nodes still to visit never outnumber the
   nodes of mapping. *)
C1_Terminates ==
    /\ [](Acyclic(conversation_data)
            => Len(messages) + Remaining <= NodeCount(conversation_data))
    /\ [][(Acyclic(conversation_data) /\ pc = "loop")
            => (pc' # "loop" \/ Remaining' < Remaining)]_vars

\* An acyclic conversation whose walk went through every node and returned.
C1_Witness ==
    /\ Acyclic(conversation_data)
    /\ Returned
    /\ Len(Chain(conversation_data)) = MaxNodes
    /\ Len(result.v) = MaxNodes

(* C2: from an acyclic conversation the call returns exactly one record per
   content-bearing node of the parent chain of current_node, the root side
   first and current_node last; nodes off that chain contribute nothing. *)
C2_ChainRecords ==
    (Returned /\ Acyclic(conversation_data)) =>
        result = List(RecordsOf(conversation_data,
                                RootPath(conversation_data), utcoffset))

\* A returned walk of two records that left aside a content-bearing node whose
\* parent is on the chain.
C2_Witness ==
    /\ Returned
    /\ Acyclic(conversation_data)
    /\ Len(result.v) = 2
    /\ result.v[1] # result.v[2]
    /\ \E k \in DOMAIN Mapping(conversation_data).v :
          /\ \A i \in 1..Len(Chain(conversation_data)) :
                 Chain(conversation_data)[i] # IdOf(k)
          /\ Emits(MessageOf(conversation_data, IdOf(k)))
          /\ \E i \in 1..Len(Chain(conversation_data)) :
                 Chain(conversation_data)[i]
                     = Mapping(conversation_data).v[k].v["parent"]

\* The rank of a character among the digits (0 for any other character)
DigitRank(c) ==
    IF \E d \in 1..Len(DigitChars) : DigitChars[d] = c
    THEN CHOOSE d \in 1..Len(DigitChars) : DigitChars[d] = c
    ELSE 0

\* s is not later than t, for two formatted timestamps
NotLater(s, t) ==
    \/ s = t
    \/ \E i \in 1..Len(s) :
          /\ \A j \in 1..(i - 1) : s[j] = t[j]
          /\ DigitRank(s[i]) < DigitRank(t[i])

\* The returned records that carry a timestamp are in non-decreasing order
\* of time.
ResultInTimeOrder ==
    \A i, j \in 1..Len(result.v) :
        (/\ i < j
         /\ result.v[i].v["timestamp"] # None
         /\ result.v[j].v["timestamp"] # None)
        => NotLater(result.v[i].v["timestamp"].v, result.v[j].v["timestamp"].v)

HasTime(message_data) ==
    /\ Has(message_data, "create_time")
    /\ message_data.v["create_time"].ty = "num"

\* Along the chain of current_node no content-bearing message was created
\* before a content-bearing ancestor.
ChainTimesOrdered(conv) ==
    LET path == RootPath(conv)
        Timed(i) == /\ Emits(MessageOf(conv, path[i]))
                    /\ HasTime(MessageOf(conv, path[i]))
    IN  \A i, j \in 1..Len(path) :
            (i < j /\ Timed(i) /\ Timed(j))
            => MessageOf(conv, path[i]).v["create_time"].v
                   <= MessageOf(conv, path[j]).v["create_time"].v

(* C3 as claimed: for every acyclic conversation the returned messages that
   have a create_time are in non-decreasing order of it. *)
C3_AsClaimed ==
    (Returned /\ Acyclic(conversation_data)) => ResultInTimeOrder

(* C3: the returned messages are in chain order; they are in non-decreasing
   order of create_time for every acyclic conversation in which, along the
   chain of current_node, no content-bearing message has a create_time
   earlier than that of a content-bearing ancestor. *)
C3_ChainTimeOrder ==
    (Returned /\ Acyclic(conversation_data)
       /\ ChainTimesOrdered(conversation_data)) => ResultInTimeOrder

\* A returned walk whose first record is strictly older than its second.
C3_Witness ==
    /\ Returned
    /\ Acyclic(conversation_data)
    /\ ChainTimesOrdered(conversation_data)
    /\ Len(result.v) >= 2
    /\ result.v[1].v["timestamp"] # None
    /\ result.v[2].v["timestamp"] # None
    /\ result.v[1].v["timestamp"] # result.v[2].v["timestamp"]

(* C4: a node whose message is null adds no record and does not stop the
   walk: from an acyclic conversation, for every null-message node of the
   chain of current_node, the record of each of its content-bearing ancestors
   on the chain is returned, and there are as many records as chain nodes
   with a non-null content-bearing message. *)
C4_NullMessageSkipped ==
    (Returned /\ Acyclic(conversation_data)) =>
        LET chain == Chain(conversation_data)
            msg(i) == MessageOf(conversation_data, chain[i])
        IN  \A i \in 1..Len(chain) :
                msg(i) = None =>
                    /\ \A j \in (i + 1)..Len(chain) :
                           Emits(msg(j)) =>
                               \E k \in 1..Len(result.v) :
                                   result.v[k] = CleanMsg(msg(j), utcoffset)
                    /\ Len(result.v) =
                           Cardinality({n \in 1..Len(chain) :
                                           msg(n) # None /\ Emits(msg(n))})

\* A returned walk over child, null-message node, content-bearing root.
C4_Witness ==
    /\ Returned
    /\ Acyclic(conversation_data)
    /\ LET chain == Chain(conversation_data)
       IN  /\ Len(chain) = 3
           /\ Emits(MessageOf(conversation_data, chain[1]))
           /\ MessageOf(conversation_data, chain[2]) = None
           /\ Emits(MessageOf(conversation_data, chain[3]))
    /\ Len(result.v) = 2

\* The walk's pointer is an id that mapping does not hold.
AtMissing ==
    /\ Truthy(current_node_id)
    /\ ~Has(Mapping(conversation_data), KeyOf(current_node_id))

(* C5: when the walk reaches an id absent from mapping (current_node itself
   or a parent pointer) the next step is the return, not a raise, and the
   value returned is the records of the nodes visited so far, the oldest
   first. *)
C5_MissingIdTruncates ==
    [][(pc = "loop" /\ AtMissing)
         => /\ pc' = "done"
            /\ result' = List(RecordsOf(conversation_data,
                                        RootPath(conversation_data), utcoffset))]_vars

\* A walk that returned two records at a dangling parent pointer.
C5_Witness ==
    /\ Returned
    /\ AtMissing
    /\ current_node_id # Get(conversation_data, "current_node", None)
    /\ Len(result.v) = 2

-----------------------------------------------------------------------------
(* The records of the accumulator and the raw messages they were built from *)

\* The raw messages of the first n content-bearing nodes met from id by
\* following parent pointers, in at most fuel steps.
RECURSIVE SourcesFrom(_, _, _, _)
SourcesFrom(conv, id, n, fuel) ==
    IF n = 0 \/ fuel = 0 \/ ~Truthy(id) THEN <<>>
    ELSE IF ~Has(Mapping(conv), KeyOf(id)) THEN <<>>
    ELSE LET node == Mapping(conv).v[KeyOf(id)]
         IN  IF Emits(node.v["message"])
             THEN <<node.v["message"]>>
                  \o SourcesFrom(conv, node.v["parent"], n - 1, fuel - 1)
             ELSE SourcesFrom(conv, node.v["parent"], n, fuel - 1)

\* The raw messages that the records of messages were built from: the i-th
\* is the message of the i-th content-bearing node of the walk from
\* current_node (which goes round a cycle as often as the records need).
Sources ==
    SourcesFrom(conversation_data, Get(conversation_data, "current_node", None),
                Len(messages), (NodeCount(conversation_data) + 1) * Len(messages))

\* content.parts of a raw message that has content
RawParts(message_data) == message_data.v["content"].v["parts"]

\* The concatenation of the values of a sequence of str values
RECURSIVE Concatenation(_)
Concatenation(strs) ==
    IF strs = <<>> THEN <<>> ELSE Head(strs).v \o Concatenation(Tail(strs))

(* C6: the text of every record is the concatenation, in order and with no
   separator, of exactly the str entries of content.parts of its message;
   dict parts add no character. *)
C6_TextIsStringParts ==
    LET src == Sources IN
    \A i \in 1..Len(messages) :
        /\ RawParts(src[i]).ty = "list"
        /\ messages[i].v["text"] =
               Str(Concatenation(SelectSeq(RawParts(src[i]).v,
                                           LAMBDA p : p.ty = "str")))

\* A record built from two text parts with a dict part between them.
C6_Witness ==
    LET src == Sources IN
    \E i \in 1..Len(messages) :
        /\ RawParts(src[i]).ty = "list"
        /\ Len(RawParts(src[i]).v) = 3
        /\ RawParts(src[i]).v[1].ty = "str"
        /\ RawParts(src[i]).v[2].ty = "dict"
        /\ RawParts(src[i]).v[3].ty = "str"
        /\ Len(messages[i].v["text"].v)
               = Len(RawParts(src[i]).v[1].v) + Len(RawParts(src[i]).v[3].v)
        /\ Len(RawParts(src[i]).v[3].v) > 0

\* content_type of the part holds 'image', whatever the case of its letters.
NamesImage(part) ==
    /\ Has(part, "content_type")
    /\ Contains(STR_image, Lower(part.v["content_type"].v))

\* The part is a dict with an asset_pointer key or an image content_type.
Recognised(part) ==
    /\ part.ty = "dict"
    /\ (Has(part, "asset_pointer") \/ NamesImage(part))

\* The message has non-empty content whose parts are a list holding some
\* non-empty text or some recognised image.
ShouldYield(message_data) ==
    /\ message_data.ty = "dict"
    /\ Has(message_data, "content")
    /\ message_data.v["content"].ty = "dict"
    /\ DOMAIN message_data.v["content"].v # {}
    /\ Has(message_data.v["content"], "parts")
    /\ RawParts(message_data).ty = "list"
    /\ \E n \in 1..Len(RawParts(message_data).v) :
          LET part == RawParts(message_data).v[n]
          IN  (part.ty = "str" /\ part.v # <<>>) \/ Recognised(part)

\* The message has a list of parts none of which is a non-empty text.
NoText(message_data) ==
    \A n \in 1..Len(RawParts(message_data).v) :
        LET part == RawParts(message_data).v[n]
        IN  part.ty = "str" => part.v = <<>>

(* C7: a node of the walked chain yields a record if and only if its message
   has non-empty content with non-empty text or a recognised image: the
   returned records are those of exactly these nodes (so a message whose
   parts are not a list, or hold neither text nor a recognised image, yields
   none), and an image-only message yields text '' with a non-empty images
   list. *)
C7_YieldsIffTextOrImage ==
    (Returned /\ Acyclic(conversation_data)) =>
        LET yielding ==
                SelectSeq(RootPath(conversation_data),
                          LAMBDA id : ShouldYield(MessageOf(conversation_data, id)))
            src(i) == MessageOf(conversation_data, yielding[i])
        IN  /\ Len(result.v) = Len(yielding)
            /\ \A i \in 1..Len(yielding) :
                   /\ result.v[i] = CleanMsg(src(i), utcoffset)
                   /\ NoText(src(i)) =>
                          /\ result.v[i].v["text"] = EmptyStr
                          /\ Has(result.v[i], "images")
                          /\ Len(result.v[i].v["images"].v) > 0

\* A returned walk with an image-only record, over a chain that also has a
\* message whose parts are not a list.
C7_Witness ==
    /\ Returned
    /\ Acyclic(conversation_data)
    /\ \E i \in 1..Len(result.v) :
          result.v[i].v["text"] = EmptyStr /\ Has(result.v[i], "images")
    /\ \E n \in 1..Len(Chain(conversation_data)) :
          LET m == MessageOf(conversation_data, Chain(conversation_data)[n])
          IN  /\ HasContent(m)
              /\ Has(m.v["content"], "parts")
              /\ RawParts(m).ty = "str"
    /\ Len(result.v) < Len(Chain(conversation_data))

\* A string of the form YYYY-MM-DD HH:MM:SS
IsFormatted(str) ==
    /\ Len(str) = 19
    /\ \A n \in 1..19 :
          CASE n \in {5, 8} -> str[n] = "-"
            [] n = 11 -> str[n] = " "
            [] n \in {14, 17} -> str[n] = ":"
            [] OTHER -> \E d \in 1..Len(DigitChars) : DigitChars[d] = str[n]

(* C8 as claimed: the timestamp of every record is null when create_time of
   its message is null or missing, and a formatted 'YYYY-MM-DD HH:MM:SS'
   string for every numeric create_time. *)
C8_AsClaimed ==
    LET src == Sources IN
    \A i \in 1..Len(messages) :
        LET timestamp == messages[i].v["timestamp"]
        IN  IF HasTime(src[i])
            THEN timestamp.ty = "str" /\ IsFormatted(timestamp.v)
            ELSE timestamp = None

\* The recognised image parts of a raw message, in the order of its parts
ImageParts(message_data) == SelectSeq(RawParts(message_data).v, Recognised)

\* The keys of a record
Keys(d) == DOMAIN d.v

(* C9: in every record role, text, timestamp and model_slug are present;
   weight, end_turn, recipient, citations and command are present exactly
   when the same key is in the metadata of the message; finish_reason
   exactly when metadata has finish_details with a type; images exactly when
   a part was recognised as an image; and there is no other key. *)
C9_OptionalFields ==
    LET src == Sources IN
    \A i \in 1..Len(messages) :
        LET rec == messages[i]
            md  == IF Has(src[i], "metadata")
                   THEN src[i].v["metadata"] ELSE EmptyDict
            hasType == IF Has(md, "finish_details")
                       THEN Has(md.v["finish_details"], "type") ELSE FALSE
        IN  /\ {"role", "text", "timestamp", "model_slug"} \subseteq Keys(rec)
            /\ \A k \in {"weight", "end_turn", "recipient", "citations", "command"} :
                   (k \in Keys(rec)) <=> (k \in Keys(md))
            /\ ("finish_reason" \in Keys(rec)) <=> hasType
            /\ ("images" \in Keys(rec)) <=> (ImageParts(src[i]) # <<>>)
            /\ Keys(rec) \subseteq
                   {"role", "text", "timestamp", "model_slug", "images",
                    "finish_reason", "weight", "end_turn", "recipient",
                    "citations", "command"}

\* A record that carries a null weight and an empty citations list, and no
\* finish_reason although its metadata has finish_details.
C9_Witness ==
    LET src == Sources IN
    \E i \in 1..Len(messages) :
        /\ Has(messages[i], "weight")
        /\ messages[i].v["weight"] = None
        /\ Has(messages[i], "citations")
        /\ ~Has(messages[i], "finish_reason")
        /\ Has(src[i], "metadata")
        /\ Has(src[i].v["metadata"], "finish_details")

\* The images of a record
ImagesOf(rec) == IF Has(rec, "images") THEN rec.v["images"].v ELSE <<>>

ImageKeys == {"content_type", "asset_pointer", "image_url", "metadata"}

(* C10 as claimed: a dict part is recorded as an image exactly when it has
   an asset_pointer key or a content_type holding 'image' (read here as the
   code reads it, in any letter case); its ImageRef has only keys present in
   the part, among content_type, asset_pointer, image_url and metadata, each
   with the value of the part; images keeps the order of the parts. *)
C10_AsClaimed ==
    LET src == Sources IN
    \A i \in 1..Len(messages) :
        LET imgs  == ImagesOf(messages[i])
            parts == ImageParts(src[i])
        IN  IF Len(imgs) # Len(parts) THEN FALSE
            ELSE \A n \in 1..Len(imgs) :
                    /\ Keys(imgs[n]) = Keys(parts[n]) \cap ImageKeys
                    /\ \A k \in Keys(imgs[n]) : imgs[n].v[k] = parts[n].v[k]

(* C10: a dict part is recorded as an image exactly when it has an
   asset_pointer key or a content_type holding 'image' in any letter case;
   its ImageRef always has content_type, with the value of the part or ''
   when the part has none, and has asset_pointer, image_url and metadata
   exactly when the part has them, each with the value of the part and no
   other key; images keeps the order of the parts. *)
C10_ImageRefs ==
    LET src == Sources IN
    \A i \in 1..Len(messages) :
        LET imgs  == ImagesOf(messages[i])
            parts == ImageParts(src[i])
        IN  IF Len(imgs) # Len(parts) THEN FALSE
            ELSE \A n \in 1..Len(imgs) :
                    /\ Keys(imgs[n]) =
                           {"content_type"} \cup (Keys(parts[n]) \cap ImageKeys)
                    /\ imgs[n].v["content_type"] =
                           (IF Has(parts[n], "content_type")
                            THEN parts[n].v["content_type"] ELSE EmptyStr)
                    /\ \A k \in Keys(imgs[n]) \ {"content_type"} :
                           imgs[n].v[k] = parts[n].v[k]

\* A record with two images out of three dict parts: the first recognised by
\* a content_type in capitals, the second by its asset_pointer alone.
C10_Witness ==
    LET src == Sources IN
    \E i \in 1..Len(messages) :
        /\ Len(ImagesOf(messages[i])) = 2
        /\ Len(SelectSeq(RawParts(src[i]).v, IsDict)) = 3
        /\ ~Has(ImagesOf(messages[i])[1], "asset_pointer")
        /\ Has(ImagesOf(messages[i])[1], "image_url")
        /\ ImagesOf(messages[i])[2].v["content_type"] = EmptyStr
        /\ ~Has(ImageParts(src[i])[2], "content_type")

-----------------------------------------------------------------------------
(* flatten_turn (conversation.py:115-122)

   A turn is a Python dict, which iterates in insertion order: it is the
   sequence of its items, each [key |-> a key, text |-> a str value]. *)

Item(key, text) == [key |-> key, text |-> text]

STR_user_tag == <<"[","u","s","e","r","]","\n">>
STR_agent_tag == <<"[","a","g","e","n","t","]","\n">>

\* Omits the newline that ends the block.
RECURSIVE flatten_turn_Unterminated(_, _)
flatten_turn_Unterminated(t, mode) ==
    IF t = <<>> THEN EmptyStr
    ELSE IF Head(t).key = "user" THEN Str(STR_user_tag \o Head(t).text.v)
    ELSE IF Head(t).key = mode THEN Str(STR_agent_tag \o Head(t).text.v)
    ELSE flatten_turn_Unterminated(Tail(t), mode)

\* for key, text in turn.items(): the first key that is 'user' or agent_mode
\* decides; return '' when the loop ends (conversation.py:117-122)
RECURSIVE flatten_turn(_, _)
flatten_turn(t, mode) ==
    IF t = <<>> THEN EmptyStr
    ELSE IF Head(t).key = "user"
         THEN Str(STR_user_tag \o Head(t).text.v \o <<"\n">>)
    ELSE IF Head(t).key = mode
         THEN Str(STR_agent_tag \o Head(t).text.v \o <<"\n">>)
    ELSE flatten_turn(Tail(t), mode)

\* How many keys a turn given to flatten_turn has at most, and how many
\* calls of a function (flatten_turn, generate_output_filename) are followed.
MaxTurnKeys == 2
MaxCalls == 2

TurnKeys == {"user", "assistant", "summarised_conversation", "other"}
TurnTexts == {Str(<<"X">>), Str(<<"Y", "\n", "z">>), EmptyStr}
AgentModes == {"summarised_conversation", "assistant", "user"}

\* Every dict of at most MaxTurnKeys distinct keys, in every insertion order.
Turns ==
    UNION {{t \in [1..n -> [key : TurnKeys, text : TurnTexts]] :
               \A i, j \in 1..n : t[i].key = t[j].key => i = j}
           : n \in 0..MaxTurnKeys}

\* One call flatten_turn(turn, agent_mode).
FlattenCall ==
    /\ Len(flat) < MaxCalls
    /\ flat' = Append(flat, flatten_turn(turn, agent_mode))
    /\ UNCHANGED <<turn, agent_mode, walk, cli, store, viewer, extras>>

WalkIdle ==
    /\ conversation_data = EmptyDict
    /\ utcoffset = 0
    /\ current_node_id = None
    /\ messages = <<>>
    /\ result = None
    /\ pc = "idle"

InitFlatten ==
    /\ turn \in Turns
    /\ agent_mode \in AgentModes
    /\ flat = <<>>
    /\ WalkIdle
    /\ CliIdle
    /\ StoreIdle
    /\ ViewerIdle
    /\ ExtrasIdle

NextFlatten == FlattenCall

SpecFlatten == InitFlatten /\ [][NextFlatten]_vars

HasKey(t, key) == \E i \in 1..Len(t) : t[i].key = key

TextOfKey(t, key) == t[CHOOSE i \in 1..Len(t) : t[i].key = key].text.v

\* "[user]\n" + text + "\n" and "[agent]\n" + text + "\n"
UserBlock(text) == Str(<<"[","u","s","e","r","]","\n">> \o text \o <<"\n">>)
AgentBlock(text) == Str(<<"[","a","g","e","n","t","]","\n">> \o text \o <<"\n">>)

(* C11: flatten_turn returns the [user] block of the text under 'user' when
   the turn has a 'user' key, the [agent] block of the text under the agent
   key when it has that key, and '' when it has neither; when the turn has
   both (under different keys) it returns one of the two blocks; and every
   call on the same turn returns the same value. *)
C11_FlattenTurn ==
    \A i \in 1..Len(flat) :
        LET hasUser == HasKey(turn, "user")
            hasAgent == HasKey(turn, agent_mode)
            asUser == UserBlock(TextOfKey(turn, "user"))
            asAgent == AgentBlock(TextOfKey(turn, agent_mode))
        IN  /\ (hasUser /\ (~hasAgent \/ agent_mode = "user")) => flat[i] = asUser
            /\ (hasAgent /\ ~hasUser) => flat[i] = asAgent
            /\ (hasUser /\ hasAgent) => flat[i] \in {asUser, asAgent}
            /\ (~hasUser /\ ~hasAgent) => flat[i] = EmptyStr
            /\ flat[i] = flat[1]

\* An assistant turn of the pipeline's shape, flattened twice to the block
\* of its summary.
C11_Witness ==
    /\ Len(flat) = 2
    /\ agent_mode = "summarised_conversation"
    /\ Len(turn) = 2
    /\ turn[1].key = "assistant"
    /\ turn[2] = Item("summarised_conversation", Str(<<"Y", "\n", "z">>))
    /\ flat[2] = Str(<<"[","a","g","e","n","t","]","\n","Y","\n","z","\n">>)

-----------------------------------------------------------------------------
(* Files and JSON

   A file is [kind |-> "missing"], [kind |-> "unreadable"] (open raises an
   OSError), [kind |-> "binary"] (bytes that are not UTF-8), [kind |->
   "corrupt"] (text that is not JSON) or [kind |-> "json", data |-> a JSON
   value]. JSON values are tagged by j: "null", "true", "false", "number"
   (num), "string" (chars), "array" (items, a sequence), "object" (members,
   a function of its keys). *)

\* What json.dump writes for a Python value
RECURSIVE ToJson(_)
ToJson(x) ==
    CASE x.ty = "None" -> [j |-> "null"]
      [] x.ty = "bool" -> [j |-> IF x.v THEN "true" ELSE "false"]
      [] x.ty = "num"  -> [j |-> "number", num |-> x.v]
      [] x.ty = "str"  -> [j |-> "string", chars |-> x.v]
      [] x.ty = "list" -> [j |-> "array",
                           items |-> [n \in 1..Len(x.v) |-> ToJson(x.v[n])]]
      [] x.ty = "dict" -> [j |-> "object",
                           members |-> [k \in DOMAIN x.v |-> ToJson(x.v[k])]]

\* What json.load returns for a JSON value
RECURSIVE FromJson(_)
FromJson(y) ==
    CASE y.j = "null"   -> None
      [] y.j = "true"   -> Bool(TRUE)
      [] y.j = "false"  -> Bool(FALSE)
      [] y.j = "number" -> Num(y.num)
      [] y.j = "string" -> Str(y.chars)
      [] y.j = "array"  -> List([n \in 1..Len(y.items) |-> FromJson(y.items[n])])
      [] y.j = "object" ->
            Dict([k \in DOMAIN y.members |-> FromJson(y.members[k])])

JsonFile(value) == [kind |-> "json", data |-> ToJson(value)]

-----------------------------------------------------------------------------
(* The command line program (__main__.py:16-138): its inputs *)

\* How many conversations the input archive holds at most
MaxBatch == 2

\* A conversation of the archive: the keys process reads, and its tree
Archive(id, title, nodes, cur) ==
    Dict([id |-> Str(<<id>>), title |-> Str(<<title>>),
          create_time |-> T1, update_time |-> T2,
          mapping |-> Dict(nodes), current_node |-> Str(<<cur>>)])

TextMsg(role, text, time) ==
    Message(List(<<Str(text)>>), [author |-> Author(role), create_time |-> time])

\* The conversation of the smoke test (a root with a null message, a user
\* message, an assistant message), whose root points at an absent parent.
ConvA ==
    Archive("A", "t",
            [r |-> Node(None, MissingId),
             m |-> Node(TextMsg(S_user, <<"H","i">>, T1), Str(<<"r">>)),
             n |-> Node(TextMsg(S_assistant, <<"o","k">>, T2), Str(<<"m">>))],
            "n")

\* Two assistant messages with a tool message and a user message between.
ConvB ==
    Archive("B", "u",
            [p |-> Node(TextMsg(S_assistant, <<"P">>, T1), None),
             q |-> Node(TextMsg(S_tool, <<"Q">>, T1), Str(<<"p">>)),
             r |-> Node(TextMsg(S_user, <<"R">>, T2), Str(<<"q">>)),
             s |-> Node(TextMsg(S_assistant, <<"S">>, T2), Str(<<"r">>))],
            "s")

\* A user message under a root message that has text and no author.
ConvC ==
    Archive("C", "v",
            [f |-> Node(Message(PartsText, [create_time |-> T1]), None),
             g |-> Node(TextMsg(S_user, <<"G">>, T2), Str(<<"f">>))],
            "g")

\* A conversation without a title.
ConvD ==
    Dict([id |-> Str(<<"D">>), create_time |-> T1, update_time |-> T2,
          mapping |-> Dict([k |-> Node(TextMsg(S_user, <<"K">>, T1), None)]),
          current_node |-> Str(<<"k">>)])

ConvPool == {ConvA, ConvB, ConvC, ConvD}

\* The states of the file named by --input
InputFiles ==
    {[kind |-> "missing"], [kind |-> "unreadable"], [kind |-> "binary"],
     [kind |-> "corrupt"]}
    \cup {JsonFile(List(cs))
            : cs \in UNION {[1..n -> ConvPool] : n \in 0..MaxBatch}}

\* argparse: --sample is any int or absent, --prod and --no-memories flags
Samples == {None, Num(-1), Num(0), Num(1), Num(2)}

Arguments == [sample : Samples, prod : BOOLEAN, no_memories : BOOLEAN]

\* random.randint(0, 2**32 - 1) (__main__.py:88)
RandomSeeds == {Num(0), Num(12345)}

\* --prod runs use this seed (__main__.py:85)
ProdSeed == 42

\* What the LLM may answer to a summarization and to a memory request
Summaries == {Str(<<"s","1">>), Str(<<"s","2">>)}
Memories == {Str(<<"N","o","n","e">>)}

Returns(value) == [raised |-> "", value |-> value]
Raises(exception) == [raised |-> exception, value |-> None]

\* load_conversations (conversation.py:6-13): json.load of the file; only
\* FileNotFoundError is caught.
load_conversations(file) ==
    CASE file.kind = "missing"    -> Returns(List(<<>>))
      [] file.kind = "unreadable" -> Raises("PermissionError")
      [] file.kind = "binary"     -> Raises("UnicodeDecodeError")
      [] file.kind = "corrupt"    -> Raises("JSONDecodeError")
      [] file.kind = "json"       -> Returns(FromJson(file.data))

-----------------------------------------------------------------------------
(* The command line program: loading and sampling (__main__.py:70-95) *)

\* An uncaught exception ends the interpreter with status 1.
Crash ==
    /\ exit_code' = Num(1)
    /\ mpc' = "crashed"

\* raw_data = load_conversations(args.input) (__main__.py:72)
Load ==
    /\ mpc = "load"
    /\ LET call == load_conversations(input_file)
       IN  IF call.raised # ""
           THEN Crash /\ UNCHANGED raw_data
           ELSE /\ raw_data' = call.value
                /\ mpc' = "loaded"
                /\ UNCHANGED exit_code
    /\ UNCHANGED <<args, input_file, seed, conv_no, processed, msg_no,
                   processed_conversations, llm_calls, output_file>>
    /\ UNCHANGED <<walk, flattener, store, viewer, extras>>

\* if not raw_data: sys.exit(1) (__main__.py:74-76)
NoConversations ==
    /\ mpc = "loaded"
    /\ ~Truthy(raw_data)
    /\ exit_code' = Num(1)
    /\ mpc' = "exited"
    /\ UNCHANGED <<args, input_file, raw_data, seed, conv_no, processed, msg_no,
                   processed_conversations, llm_calls, output_file>>
    /\ UNCHANGED <<walk, flattener, store, viewer, extras>>

\* if args.sample: is false (__main__.py:81-82): no seed, no sampling
NoSampling ==
    /\ mpc = "loaded"
    /\ Truthy(raw_data)
    /\ ~Truthy(args.sample)
    /\ mpc' = "batch"
    /\ UNCHANGED <<args, input_file, raw_data, seed, conv_no, processed, msg_no,
                   processed_conversations, llm_calls, output_file, exit_code>>
    /\ UNCHANGED <<walk, flattener, store, viewer, extras>>

\* The lists random.sample(population, k) may return, 0 <= k <= len: k
\* elements at distinct positions, in any order.
RandomSamples(population, k) ==
    {[j \in 1..k |-> population[pos[j]]] :
        pos \in {f \in [1..k -> 1..Len(population)] :
                    \A a, b \in 1..k : f[a] = f[b] => a = b}}

\* Every sampled run draws a fresh seed.
SeedsOf_Fresh(prod) == RandomSeeds

\* The seed of a sampled run (__main__.py:83-88)
SeedsOf(prod) == IF prod THEN {Num(ProdSeed)} ELSE RandomSeeds

\* What random.sample(population, k) has returned after random.seed(seed_),
\* if that was drawn before: the generator is a function of its seed.
Drawn(seed_, population, k) ==
    {d.chosen : d \in {e \in prng : e.draw = <<seed_, population, k>>}}

\* if args.sample: (__main__.py:82-95) with a sample count that
\* random.sample accepts, or that is not below len(raw_data)
Sample ==
    /\ mpc = "loaded"
    /\ Truthy(raw_data)
    /\ Truthy(args.sample)
    /\ seed' \in SeedsOf(args.prod)
    /\ IF args.sample.v < Len(raw_data.v)
       THEN /\ args.sample.v >= 0
            /\ IF Drawn(seed', raw_data.v, args.sample.v) # {}
               THEN /\ raw_data' \in {List(chosen) : chosen \in
                                         Drawn(seed', raw_data.v, args.sample.v)}
                    /\ UNCHANGED prng
               ELSE \E chosen \in RandomSamples(raw_data.v, args.sample.v) :
                       /\ raw_data' = List(chosen)
                       /\ prng' = prng \cup
                            {[draw |-> <<seed', raw_data.v, args.sample.v>>,
                              chosen |-> chosen]}
       ELSE UNCHANGED <<raw_data, prng>>
    /\ mpc' = "batch"
    /\ UNCHANGED <<args, input_file, conv_no, processed, msg_no,
                   processed_conversations, llm_calls, output_file, exit_code>>
    /\ UNCHANGED <<walk, flattener, store, viewer, namer, race, previous>>

\* random.sample(raw_data, k) with k < 0 raises ValueError (__main__.py:95),
\* which nothing catches.
SampleRaises ==
    /\ mpc = "loaded"
    /\ Truthy(raw_data)
    /\ Truthy(args.sample)
    /\ args.sample.v < Len(raw_data.v)
    /\ args.sample.v < 0
    /\ seed' \in SeedsOf(args.prod)
    /\ Crash
    /\ UNCHANGED <<args, input_file, raw_data, conv_no, processed, msg_no,
                   processed_conversations, llm_calls, output_file>>
    /\ UNCHANGED <<walk, flattener, store, viewer, extras>>

-----------------------------------------------------------------------------
(* process_conversation_with_summaries (processor.py:26-73) inside the batch
   loop of main (__main__.py:101-127) *)

\* The prompts of config.py, each abbreviated to one symbol that no message
\* text holds
SUMMARIZATION_PROMPT == <<"{SUMMARIZATION_PROMPT}">>
MEMORY_EXTRACTION_PROMPT == <<"{MEMORY_EXTRACTION_PROMPT}">>

STR_assistant_colon == <<"a","s","s","i","s","t","a","n","t",":"," ">>

\* "\n".join(blocks)
RECURSIVE JoinLines(_)
JoinLines(blocks) ==
    IF blocks = <<>> THEN <<>>
    ELSE IF Len(blocks) = 1 THEN blocks[1].v
    ELSE blocks[1].v \o <<"\n">> \o JoinLines(Tail(blocks))

\* Flattens the turns with the raw assistant text as the agent's block.
Flattened_RawText(turns) ==
    JoinLines([j \in 1..Len(turns) |-> flatten_turn(turns[j], "assistant")])

\* "\n".join([flatten_turn(t) for t in turns]) (processor.py:50, 83-85)
Flattened(turns) ==
    JoinLines([j \in 1..Len(turns) |->
                  flatten_turn(turns[j], "summarised_conversation")])

\* The prompt of summarize_assistant_turn (processor.py:16)
SummaryPrompt(turn_text, conversation_context) ==
    Str(SUMMARIZATION_PROMPT \o conversation_context
        \o STR_assistant_colon \o turn_text.v)

\* The prompt of extract_memories (processor.py:87)
MemoryPrompt(turns) == Str(MEMORY_EXTRACTION_PROMPT \o Flattened(turns))

\* One request to the LLM: answer is None when the call raised.
LlmCall(kind, prompt, answer) ==
    [conv |-> conv_no, kind |-> kind, prompt |-> prompt, answer |-> answer]

ProcessedKeys == {"id", "title", "create_time", "update_time"}

\* The next conversation of the loop enters process: processed is created
\* (processor.py:33-39) and the walk starts (processor.py:41).
BeginConversation ==
    /\ mpc = "batch"
    /\ conv_no < Len(raw_data.v)
    /\ LET conv == raw_data.v[conv_no + 1]
       IN  /\ \A key \in ProcessedKeys : Has(conv, key)
           /\ processed' = Dict([id |-> conv.v["id"], title |-> conv.v["title"],
                                 create_time |-> conv.v["create_time"],
                                 update_time |-> conv.v["update_time"],
                                 turns |-> List(<<>>)])
           /\ conversation_data' = conv
           /\ current_node_id' = Get(conv, "current_node", None)
    /\ messages' = <<>>
    /\ result' = None
    /\ pc' = "loop"
    /\ conv_no' = conv_no + 1
    /\ msg_no' = 0
    /\ mpc' = "process"
    /\ UNCHANGED <<args, input_file, raw_data, seed, processed_conversations,
                   llm_calls, output_file, exit_code, utcoffset, flattener, store, viewer, extras>>

\* conversation['id'] (or title, create_time, update_time) raises KeyError,
\* which the loop catches (__main__.py:125-127).
BeginRaises ==
    /\ mpc = "batch"
    /\ conv_no < Len(raw_data.v)
    /\ \E key \in ProcessedKeys : ~Has(raw_data.v[conv_no + 1], key)
    /\ conv_no' = conv_no + 1
    /\ UNCHANGED <<args, input_file, raw_data, seed, processed, msg_no,
                   processed_conversations, llm_calls, output_file, exit_code,
                   mpc, walk, flattener, store, viewer, extras>>

\* extract_linear_conversation raised: the loop catches it.
WalkRaised ==
    /\ mpc = "process"
    /\ pc = "raised"
    /\ mpc' = "batch"
    /\ pc' = "idle"
    /\ UNCHANGED <<args, input_file, raw_data, seed, conv_no, processed, msg_no,
                   processed_conversations, llm_calls, output_file, exit_code,
                   conversation_data, utcoffset, current_node_id, messages,
                   result, flattener, store, viewer, extras>>

\* The turn loop is at a message (processor.py:43).
AtMessage ==
    /\ mpc = "process"
    /\ pc = "done"
    /\ msg_no < Len(result.v)

Appended(new_turn) ==
    Dict([processed.v EXCEPT !["turns"] = List(Append(@.v, new_turn))])

\* A user message (processor.py:44-45, 71)
UserTurn ==
    /\ AtMessage
    /\ LET message == result.v[msg_no + 1]
       IN  /\ message.v["role"] = S_user
           /\ processed' = Appended(<<Item("user", message.v["text"])>>)
    /\ msg_no' = msg_no + 1
    /\ UNCHANGED <<args, input_file, raw_data, seed, conv_no,
                   processed_conversations, llm_calls, output_file, exit_code,
                   mpc, walk, flattener, store, viewer, extras>>

\* Summarizes an assistant message and appends its text without the summary.
AssistantTurn_Unsummarised ==
    /\ AtMessage
    /\ LET message == result.v[msg_no + 1]
           context == Flattened(processed.v["turns"].v)
           prompt == SummaryPrompt(message.v["text"], context)
       IN  /\ message.v["role"] = S_assistant
           /\ \E summary \in Summaries :
                  /\ llm_calls' =
                         Append(llm_calls, LlmCall("summarize", prompt, summary))
                  /\ processed' =
                         Appended(<<Item("assistant", message.v["text"])>>)
    /\ msg_no' = msg_no + 1
    /\ UNCHANGED <<args, input_file, raw_data, seed, conv_no,
                   processed_conversations, output_file, exit_code, mpc,
                   walk, flattener, store, viewer, extras>>

\* An assistant message whose summarization call answers (processor.py:48-66)
AssistantTurn ==
    /\ AtMessage
    /\ LET message == result.v[msg_no + 1]
           context == Flattened(processed.v["turns"].v)
           prompt == SummaryPrompt(message.v["text"], context)
       IN  /\ message.v["role"] = S_assistant
           /\ \E summary \in Summaries :
                  /\ llm_calls' =
                         Append(llm_calls, LlmCall("summarize", prompt, summary))
                  /\ processed' =
                         Appended(<<Item("assistant", message.v["text"]),
                                    Item("summarised_conversation", summary)>>)
    /\ msg_no' = msg_no + 1
    /\ UNCHANGED <<args, input_file, raw_data, seed, conv_no,
                   processed_conversations, output_file, exit_code, mpc,
                   walk, flattener, store, viewer, extras>>

\* An assistant message whose summarization call raises: the exception
\* leaves process and is caught by the loop (__main__.py:125-127).
AssistantTurnFails ==
    /\ AtMessage
    /\ LET message == result.v[msg_no + 1]
           context == Flattened(processed.v["turns"].v)
           prompt == SummaryPrompt(message.v["text"], context)
       IN  /\ message.v["role"] = S_assistant
           /\ llm_calls' = Append(llm_calls, LlmCall("summarize", prompt, None))
    /\ mpc' = "batch"
    /\ UNCHANGED <<args, input_file, raw_data, seed, conv_no, processed, msg_no,
                   processed_conversations, output_file, exit_code,
                   walk, flattener, store, viewer, extras>>

\* Appends a turn for a message of another role.
OtherRole_Kept ==
    /\ AtMessage
    /\ LET message == result.v[msg_no + 1]
       IN  /\ message.v["role"] \notin {S_user, S_assistant}
           /\ processed' = Appended(<<Item("user", message.v["text"])>>)
    /\ msg_no' = msg_no + 1
    /\ UNCHANGED <<args, input_file, raw_data, seed, conv_no,
                   processed_conversations, llm_calls, output_file, exit_code,
                   mpc, walk, flattener, store, viewer, extras>>

\* A message of any other role: continue (processor.py:67-69)
OtherRole ==
    /\ AtMessage
    /\ result.v[msg_no + 1].v["role"] \notin {S_user, S_assistant}
    /\ msg_no' = msg_no + 1
    /\ UNCHANGED <<args, input_file, raw_data, seed, conv_no, processed,
                   processed_conversations, llm_calls, output_file, exit_code,
                   mpc, walk, flattener, store, viewer, extras>>

\* process has returned (processor.py:73).
Processed ==
    /\ mpc = "process"
    /\ pc = "done"
    /\ msg_no = Len(result.v)

\* Extracts memories although --no-memories was given.
WithoutMemories_Extracts ==
    /\ Processed
    /\ args.no_memories
    /\ \E memories \in Memories :
          /\ llm_calls' =
                 Append(llm_calls,
                        LlmCall("memories",
                                MemoryPrompt(Get(processed, "turns", List(<<>>)).v),
                                memories))
          /\ processed' = Dict(("memories" :> memories) @@ processed.v)
          /\ processed_conversations' = Append(processed_conversations, processed')
    /\ mpc' = "batch"
    /\ pc' = "idle"
    /\ UNCHANGED <<args, input_file, raw_data, seed, conv_no, msg_no,
                   output_file, exit_code, conversation_data, utcoffset,
                   current_node_id, messages, result, flattener, store, viewer, extras>>

\* --no-memories: the conversation is appended as it is (__main__.py:117-123)
WithoutMemories ==
    /\ Processed
    /\ args.no_memories
    /\ processed_conversations' = Append(processed_conversations, processed)
    /\ mpc' = "batch"
    /\ pc' = "idle"
    /\ UNCHANGED <<args, input_file, raw_data, seed, conv_no, processed, msg_no,
                   llm_calls, output_file, exit_code, conversation_data,
                   utcoffset, current_node_id, messages, result, flattener, store, viewer, extras>>

\* extract_memories answers: memories is set, the conversation appended
\* (__main__.py:117-123, processor.py:76-94)
WithMemories ==
    /\ Processed
    /\ ~args.no_memories
    /\ \E memories \in Memories :
          /\ llm_calls' =
                 Append(llm_calls,
                        LlmCall("memories",
                                MemoryPrompt(Get(processed, "turns", List(<<>>)).v),
                                memories))
          /\ processed' = Dict(("memories" :> memories) @@ processed.v)
          /\ processed_conversations' = Append(processed_conversations, processed')
    /\ mpc' = "batch"
    /\ pc' = "idle"
    /\ UNCHANGED <<args, input_file, raw_data, seed, conv_no, msg_no,
                   output_file, exit_code, conversation_data, utcoffset,
                   current_node_id, messages, result, flattener, store, viewer, extras>>

\* Keeps the conversation, without memories, when extract_memories raises.
MemoriesFail_KeepsPartial ==
    /\ Processed
    /\ ~args.no_memories
    /\ llm_calls' =
           Append(llm_calls,
                  LlmCall("memories",
                          MemoryPrompt(Get(processed, "turns", List(<<>>)).v), None))
    /\ processed_conversations' = Append(processed_conversations, processed)
    /\ mpc' = "batch"
    /\ pc' = "idle"
    /\ UNCHANGED <<args, input_file, raw_data, seed, conv_no, processed, msg_no,
                   output_file, exit_code, conversation_data, utcoffset,
                   current_node_id, messages, result, flattener, store, viewer, extras>>

\* extract_memories raises: caught by the loop, nothing is appended.
MemoriesFail ==
    /\ Processed
    /\ ~args.no_memories
    /\ llm_calls' =
           Append(llm_calls,
                  LlmCall("memories",
                          MemoryPrompt(Get(processed, "turns", List(<<>>)).v), None))
    /\ mpc' = "batch"
    /\ pc' = "idle"
    /\ UNCHANGED <<args, input_file, raw_data, seed, conv_no, processed, msg_no,
                   processed_conversations, output_file, exit_code,
                   conversation_data, utcoffset, current_node_id, messages,
                   result, flattener, store, viewer, extras>>

-----------------------------------------------------------------------------
(* Metadata and saving (__main__.py:129-138, storage.py:23-74) *)

\* What the clock and git answer, and the --llm model of the run with the
\* mode setup_llm_client gives it
S_now == Str(<<"2","0","2","5","-","0","1","-","0","1","T","0","0",":","0","0">>)
S_commit == Str(<<"u","n","k","n","o","w","n">>)
S_openai == Str(<<"o","p","e","n","a","i">>)

\* create_metadata (storage.py:23-49)
create_metadata(model, llm_mode, seed_, n_samples) ==
    Dict([processing_timestamp |-> S_now, git_commit |-> S_commit,
          model |-> model, llm_mode |-> llm_mode,
          prompts |-> Dict([summarization |-> Str(SUMMARIZATION_PROMPT),
                            memory_extraction |-> Str(MEMORY_EXTRACTION_PROMPT)])]
         @@ (IF seed_ # None THEN [random_seed |-> seed_] ELSE <<>>)
         @@ (IF n_samples # None THEN [n_samples |-> n_samples] ELSE <<>>))

\* output of save_conversations (storage.py:58-63)
Output(conversations, metadata) ==
    Dict([conversations |-> conversations]
         @@ (IF Truthy(metadata) THEN [metadata |-> metadata] ELSE <<>>))

\* The loop is over: create_metadata, save_conversations, and main returns
\* (__main__.py:129-138).
Finish ==
    /\ mpc = "batch"
    /\ conv_no = Len(raw_data.v)
    /\ LET metadata == create_metadata(S_gpt4, S_openai, seed, args.sample)
       IN  output_file' = Output(List(processed_conversations), metadata)
    /\ exit_code' = Num(0)
    /\ mpc' = "exited"
    /\ UNCHANGED <<args, input_file, raw_data, seed, conv_no, processed, msg_no,
                   processed_conversations, llm_calls, walk, flattener, store, viewer, extras>>

\* The same with a write that fails: save_conversations catches IOError
\* (storage.py:73-74) and main returns.
FinishUnsaved ==
    /\ mpc = "batch"
    /\ conv_no = Len(raw_data.v)
    /\ exit_code' = Num(0)
    /\ mpc' = "exited"
    /\ UNCHANGED <<args, input_file, raw_data, seed, conv_no, processed, msg_no,
                   processed_conversations, llm_calls, output_file, walk,
                   flattener, store, viewer, extras>>

InitMain ==
    /\ args \in Arguments
    /\ input_file \in InputFiles
    /\ raw_data = None
    /\ seed = None
    /\ conv_no = 0
    /\ processed = None
    /\ msg_no = 0
    /\ processed_conversations = <<>>
    /\ llm_calls = <<>>
    /\ output_file = None
    /\ exit_code = None
    /\ mpc = "load"
    /\ WalkIdle
    /\ FlattenerIdle
    /\ StoreIdle
    /\ ViewerIdle
    /\ ExtrasIdle

NextMain ==
    \/ Load \/ NoConversations \/ NoSampling \/ Sample \/ SampleRaises
    \/ BeginConversation \/ BeginRaises
    \/ Skip \/ Emit \/ Raise \/ LoopExit \/ Break \/ WalkRaised
    \/ UserTurn \/ AssistantTurn \/ AssistantTurnFails \/ OtherRole
    \/ WithoutMemories \/ WithMemories \/ MemoriesFail
    \/ Finish \/ FinishUnsaved

SpecMain == InitMain /\ [][NextMain]_vars

-----------------------------------------------------------------------------
(* The turns of a conversation, as the specification describes them *)

IsUser(message) == message.v["role"] = S_user
IsAssistant(message) == message.v["role"] = S_assistant

\* The turns of the messages msgs, the assistant messages taking their
\* summaries from answers in order
RECURSIVE ExpectedTurns(_, _)
ExpectedTurns(msgs, answers) ==
    IF msgs = <<>> THEN <<>>
    ELSE IF IsUser(Head(msgs))
         THEN <<<<Item("user", Head(msgs).v["text"])>>>>
              \o ExpectedTurns(Tail(msgs), answers)
    ELSE IF IsAssistant(Head(msgs)) /\ answers # <<>>
         THEN <<<<Item("assistant", Head(msgs).v["text"]),
                  Item("summarised_conversation", Head(answers))>>>>
              \o ExpectedTurns(Tail(msgs), Tail(answers))
    ELSE ExpectedTurns(Tail(msgs), answers)

\* The summarization requests of conversation n, in order, and their answers
SummaryCalls(n) ==
    SelectSeq(llm_calls, LAMBDA c : c.conv = n /\ c.kind = "summarize")

Answers(n) ==
    LET answered == SelectSeq(SummaryCalls(n), LAMBDA c : c.answer # None)
    IN  [j \in 1..Len(answered) |-> answered[j].answer]

\* The linear messages the turn loop has handled so far
Handled == SubSeq(result.v, 1, msg_no)

\* process is in its turn loop or has just left it
InTurns == mpc = "process" /\ pc = "done"

(* C12: while process builds a conversation, its turns are, in order, the
   user and assistant messages handled so far of the linearized sequence:
   {user: text} for a user message, {assistant: text,
   summarised_conversation: the LLM's answer} for an assistant message,
   nothing for a message of another role; id, title, create_time and
   update_time are those of the raw conversation. *)
C12_TurnsOfUserAndAssistant ==
    InTurns =>
        LET raw == raw_data.v[conv_no]
            turns == processed.v["turns"].v
            speakers == SelectSeq(Handled,
                                  LAMBDA m : IsUser(m) \/ IsAssistant(m))
        IN  /\ \A key \in ProcessedKeys : processed.v[key] = raw.v[key]
            /\ DOMAIN processed.v = ProcessedKeys \cup {"turns"}
            /\ Len(turns) = Len(speakers)
            /\ turns = ExpectedTurns(Handled, Answers(conv_no))
            /\ \A j \in 1..Len(turns) :
                   IF IsUser(speakers[j])
                   THEN turns[j] = <<Item("user", speakers[j].v["text"])>>
                   ELSE /\ Len(turns[j]) = 2
                        /\ turns[j][1] = Item("assistant", speakers[j].v["text"])
                        /\ turns[j][2].key = "summarised_conversation"
                        /\ turns[j][2].text \in Summaries

\* process has handled the four messages of ConvB: three turns, none for the
\* tool message.
C12_Witness ==
    /\ InTurns
    /\ raw_data.v[conv_no] = ConvB
    /\ msg_no = 4
    /\ Len(processed.v["turns"].v) = 3
    /\ processed.v["turns"].v[2] = <<Item("user", Str(<<"R">>))>>

\* The block of a turn in a summarization context: the user's text, or the
\* summary of the assistant's message
BlockOf(t) ==
    IF HasKey(t, "user") THEN UserBlock(TextOfKey(t, "user"))
    ELSE AgentBlock(TextOfKey(t, "summarised_conversation"))

\* The context of the message the turn loop is at: the blocks of the turns
\* of the earlier messages of this conversation, joined by newlines
ExpectedContext ==
    LET turns == ExpectedTurns(Handled, Answers(conv_no))
    IN  JoinLines([j \in 1..Len(turns) |-> BlockOf(turns[j])])

IsSummaryRequest(c) ==
    /\ c.kind = "summarize"
    /\ c.conv = conv_no
    /\ c.prompt = Str(SUMMARIZATION_PROMPT \o ExpectedContext
                      \o <<"a","s","s","i","s","t","a","n","t",":"," ">>
                      \o result.v[msg_no + 1].v["text"].v)

(* C13: one summarization request is sent per assistant message: in the turn
   loop the conversation has as many requests, all answered, as assistant
   messages handled; every request is sent at an assistant message, and its
   prompt is the summarization prompt, then the newline-joined blocks of the
   turns built before it in this conversation (user text, or the summary of
   an assistant message), then 'assistant: ' and the message text; the
   requests of earlier conversations are left as they were. *)
C13_SummaryRequests ==
    /\ [](InTurns =>
            /\ Len(SummaryCalls(conv_no))
                 = Len(SelectSeq(Handled, LAMBDA m : IsAssistant(m)))
            /\ \A j \in 1..Len(SummaryCalls(conv_no)) :
                   SummaryCalls(conv_no)[j].answer # None)
    /\ [][(llm_calls' # llm_calls /\ llm_calls'[Len(llm_calls')].kind = "summarize")
            => /\ AtMessage
               /\ IsAssistant(result.v[msg_no + 1])
               /\ Len(llm_calls') = Len(llm_calls) + 1
               /\ SubSeq(llm_calls', 1, Len(llm_calls)) = llm_calls
               /\ IsSummaryRequest(llm_calls'[Len(llm_calls')])]_vars

\* ConvB is the second conversation of the batch, after ConvA: the request
\* for its second assistant message carries the summary of the first and
\* the user's text, and nothing of ConvA.
C13_Witness ==
    /\ InTurns
    /\ conv_no = 2
    /\ raw_data.v = <<ConvA, ConvB>>
    /\ Len(SummaryCalls(1)) = 1
    /\ Len(SummaryCalls(2)) = 2
    /\ SummaryCalls(2)[1].answer = Str(<<"s","2">>)
    /\ SummaryCalls(2)[2].prompt =
           Str(<<"{SUMMARIZATION_PROMPT}",
                 "[","a","g","e","n","t","]","\n","s","2","\n",
                 "\n",
                 "[","u","s","e","r","]","\n","R","\n",
                 "a","s","s","i","s","t","a","n","t",":"," ","S">>)

-----------------------------------------------------------------------------
(* The batch, as the specification describes it *)

\* Some request of conversation n raised.
CallFailed(n) == \E j \in 1..Len(llm_calls) :
                     llm_calls[j].conv = n /\ llm_calls[j].answer = None

\* The conversation has the four keys process copies, and every message of
\* its chain that yields a record has an author role.
WellFormed(conv) ==
    /\ \A key \in ProcessedKeys : Has(conv, key)
    /\ \A j \in 1..Len(RootPath(conv)) :
           LET message == MessageOf(conv, RootPath(conv)[j])
           IN  ShouldYield(message) => Has(Get(message, "author", EmptyDict), "role")

\* How many conversations the loop has finished with
Finished == IF mpc = "process" THEN conv_no - 1 ELSE conv_no

\* The whole processed conversation of the n-th conversation of the batch
ExpectedProcessed(n) ==
    LET raw == raw_data.v[n]
        records == RecordsOf(raw, RootPath(raw), utcoffset)
        memory == SelectSeq(llm_calls,
                            LAMBDA c : c.conv = n /\ c.kind = "memories")
    IN  Dict([id |-> raw.v["id"], title |-> raw.v["title"],
              create_time |-> raw.v["create_time"],
              update_time |-> raw.v["update_time"],
              turns |-> List(ExpectedTurns(records, Answers(n)))]
             @@ (IF args.no_memories THEN <<>>
                 ELSE [memories |-> memory[1].answer]))

\* The conversations finished without any failure, in the order of the loop
Succeeded ==
    SelectSeq([n \in 1..Finished |-> n],
              LAMBDA n : WellFormed(raw_data.v[n]) /\ ~CallFailed(n))

(* C14: at every point of the batch loop and after it, the list of processed
   conversations is exactly, in the order of the loop, the whole processed
   conversations (every turn, and memories unless --no-memories) of the
   well-formed conversations finished so far none of whose LLM requests
   failed; a conversation with a failed request, or whose processing raised
   anything else, is absent; the run never ends inside the loop: it ends
   with status 0 after the last conversation, and what it writes holds that
   list. *)
C14_FailedConversationsSkipped ==
    /\ mpc \in {"batch", "process"} \/ (mpc = "exited" /\ exit_code = Num(0)) =>
          /\ Len(processed_conversations) = Len(Succeeded)
          /\ \A j \in 1..Len(Succeeded) :
                 processed_conversations[j] = ExpectedProcessed(Succeeded[j])
    /\ (mpc = "exited" /\ exit_code = Num(0)) =>
          /\ conv_no = Len(raw_data.v)
          /\ output_file # None =>
                 output_file.v["conversations"] = List(processed_conversations)
    /\ conv_no > 0 => mpc # "crashed"

\* ConvB failed at its second summarization request, ConvA after it was
\* processed, and the run wrote ConvA alone.
C14_Witness ==
    /\ mpc = "exited"
    /\ raw_data.v = <<ConvB, ConvA>>
    /\ Len(SummaryCalls(1)) = 2
    /\ SummaryCalls(1)[2].answer = None
    /\ output_file # None
    /\ Len(output_file.v["conversations"].v) = 1
    /\ output_file.v["conversations"].v[1].v["id"] = Str(<<"A">>)
    /\ Len(output_file.v["conversations"].v[1].v["turns"].v) = 2

-----------------------------------------------------------------------------
(* The metadata envelope, the exit status and the loading of the archive *)

\* The metadata of the file the run wrote
WrittenMetadata == output_file.v["metadata"]

(* C15 as claimed: in the metadata the run writes, random_seed and n_samples
   are both present or both absent, and they are present exactly when
   --sample was given, whatever its value. *)
C15_AsClaimed ==
    output_file # None =>
        /\ Has(WrittenMetadata, "random_seed") <=> Has(WrittenMetadata, "n_samples")
        /\ Has(WrittenMetadata, "random_seed") <=> args.sample # None

\* The input file yields no conversations: it cannot be loaded, or holds
\* an empty list.
YieldsNoConversations ==
    IF input_file.kind = "json" THEN input_file.data.items = <<>> ELSE TRUE

(* C16 as claimed: the process ends with status 1 exactly when the input
   file yields no conversations, and with status 0 otherwise. *)
C16_AsClaimed ==
    exit_code # None =>
        /\ exit_code = Num(1) <=> YieldsNoConversations
        /\ exit_code = Num(0) <=> ~YieldsNoConversations

(* C17 as claimed: when the archive file is missing, unreadable or corrupt,
   load_conversations returns an empty list without raising, and main goes
   on to its 'no conversations' exit. *)
C17_AsClaimed ==
    (input_file.kind # "json" /\ mpc # "load") =>
        /\ raw_data = List(<<>>)
        /\ mpc \in {"loaded", "exited"}

-----------------------------------------------------------------------------
(* Persistence: save_conversations and load_processed_conversations
   (storage.py:52-108) *)

\* How many conversations a saved list holds at most
MaxStored == 2

\* Processed conversations: the one of the storage test, a legacy one with
\* a title outside ASCII, and one without turns
Stored1 ==
    Dict([id |-> Str(<<"1">>), title |-> Str(<<"T">>),
          turns |-> List(<<Dict([user |-> S_Hi]),
                           Dict([assistant |-> S_ok,
                                 summarised_conversation |-> Str(<<"s">>)])>>),
          memories |-> Str(<<"-"," ","m">>)])
Stored2 == Dict([id |-> Str(<<"2">>), title |-> Str(<<"é">>)])
Stored3 == Dict([id |-> Str(<<"3">>), turns |-> List(<<>>), memories |-> None])

ConversationLists ==
    {List(cs) : cs \in UNION {[1..n -> {Stored1, Stored2, Stored3}]
                                : n \in 0..MaxStored}}

\* The metadata argument: not given, an empty map, the map of the test
Metadatas ==
    {None, EmptyDict,
     Dict([model |-> S_gpt4, llm_mode |-> S_openai, git_commit |-> S_commit])}

\* The files load_processed_conversations may be given
StoreFiles ==
    {[kind |-> "missing"], [kind |-> "unreadable"], [kind |-> "binary"],
     [kind |-> "corrupt"],
     JsonFile(List(<<Stored2>>)),
     JsonFile(List(<<>>)),
     JsonFile(Dict([conversations |-> List(<<Stored1>>),
                    metadata |-> Dict([model |-> S_gpt4])])),
     JsonFile(Dict([conversations |-> List(<<Stored1>>)])),
     JsonFile(Dict([metadata |-> Dict([model |-> S_gpt4])])),
     JsonFile(EmptyDict),
     JsonFile(Num(5)), JsonFile(S_Hi), JsonFile(None), JsonFile(Bool(TRUE))}

\* load_processed_conversations (storage.py:77-108): the pair returned, or
\* the exception that leaves the call
load_processed_conversations(file) ==
    CASE file.kind = "missing"    -> Returns(<<List(<<>>), None>>)
      [] file.kind = "unreadable" -> Returns(<<List(<<>>), None>>)
      [] file.kind = "binary"     -> Raises("UnicodeDecodeError")
      [] file.kind = "corrupt"    -> Returns(<<List(<<>>), None>>)
      [] file.kind = "json" ->
            LET data == FromJson(file.data)
            IN  IF IsList(data) THEN Returns(<<data, None>>)
                ELSE IF IsDict(data)
                     THEN Returns(<<Get(data, "conversations", List(<<>>)),
                                    Get(data, "metadata", None)>>)
                ELSE Returns(<<List(<<>>), None>>)

\* save_conversations writes the file (storage.py:58-67).
Save ==
    /\ \E conversations \in ConversationLists, metadata \in Metadatas :
          /\ store_file' = JsonFile(Output(conversations, metadata))
          /\ saved' = [conversations |-> conversations, metadata |-> metadata]
    /\ loaded' = None
    /\ UNCHANGED <<walk, flattener, cli, viewer, extras>>

\* open or the write raises IOError, which save_conversations catches
\* (storage.py:73-74): the file is as it was, or holds a part of the text.
SaveFails ==
    /\ store_file' \in {store_file, [kind |-> "corrupt"]}
    /\ saved' = None
    /\ loaded' = None
    /\ UNCHANGED <<walk, flattener, cli, viewer, extras>>

\* One call load_processed_conversations(filename).
LoadProcessed ==
    /\ loaded = None
    /\ loaded' = load_processed_conversations(store_file)
    /\ UNCHANGED <<store_file, saved, walk, flattener, cli, viewer, extras>>

InitStore ==
    /\ store_file \in StoreFiles
    /\ saved = None
    /\ loaded = None
    /\ WalkIdle
    /\ FlattenerIdle
    /\ CliIdle
    /\ ViewerIdle
    /\ ExtrasIdle

NextStore == Save \/ SaveFails \/ LoadProcessed

SpecStore == InitStore /\ [][NextStore]_vars

(* C18 as claimed: loading the file that save_conversations wrote returns
   the conversations and the metadata that were saved, for every list and
   every metadata (none, an empty map, a map), and the file has a metadata
   key exactly when metadata was given. *)
C18_AsClaimed ==
    (saved # None /\ loaded # None) =>
        /\ loaded.raised = ""
        /\ loaded.value = <<saved.conversations, saved.metadata>>
        /\ ("metadata" \in DOMAIN store_file.data.members) <=> (saved.metadata # None)

\* The pair the claim gives for a file
ClaimedLoad(file) ==
    IF file.kind # "json" THEN <<List(<<>>), None>>
    ELSE IF file.data.j = "array" THEN <<FromJson(file.data), None>>
    ELSE IF file.data.j = "object"
         THEN <<IF "conversations" \in DOMAIN file.data.members
                THEN FromJson(file.data.members["conversations"])
                ELSE List(<<>>),
                IF "metadata" \in DOMAIN file.data.members
                THEN FromJson(file.data.members["metadata"]) ELSE None>>
    ELSE <<List(<<>>), None>>

(* C19 as claimed: load_processed_conversations never raises, and returns
   (array, null) for a bare array, (conversations, metadata or null) for an
   object, and ([], null) for any other JSON value, a missing file or a file
   that cannot be decoded. *)
C19_AsClaimed ==
    loaded # None =>
        /\ loaded.raised = ""
        /\ loaded.value = ClaimedLoad(store_file)

-----------------------------------------------------------------------------
(* The web viewer (app.py) *)

\* The largest index asked of /api/conversation/<index>
MaxIndex == 2

\* The files under data/, by relative path
ViewerDisk ==
    [a |-> JsonFile(Dict([conversations |-> List(<<Stored1, Stored3>>),
                          metadata |-> Dict([model |-> S_gpt4])])),
     b |-> JsonFile(List(<<Stored2>>)),
     c |-> JsonFile(Dict([conversations |-> List(<<Stored3>>)])),
     d |-> JsonFile(List(<<>>)),
     e |-> JsonFile(Dict([conversations |-> None,
                          metadata |-> Dict([model |-> S_gpt4])])),
     f |-> JsonFile(Dict([conversations |-> Dict([x |-> Stored1])])),
     g |-> JsonFile(Dict([conversations |-> S_Hi])),
     h |-> JsonFile(Num(5)),
     o |-> JsonFile(Dict([metadata |-> Dict([model |-> S_gpt4])])),
     p |-> JsonFile(List(<<Num(5), Stored1>>)),
     q |-> JsonFile(Dict([conversations |-> List(<<Stored2>>),
                          metadata |-> EmptyDict])),
     k |-> [kind |-> "corrupt"],
     l |-> [kind |-> "binary"],
     m |-> [kind |-> "unreadable"],
     n |-> [kind |-> "missing"]]

ViewerPaths == DOMAIN ViewerDisk

\* load_conversations_from_file (app.py:54-65): the pair returned, or the
\* exception of open or json.load, none of which it catches
load_conversations_from_file(file) ==
    CASE file.kind = "missing"    -> Raises("FileNotFoundError")
      [] file.kind = "unreadable" -> Raises("PermissionError")
      [] file.kind = "binary"     -> Raises("UnicodeDecodeError")
      [] file.kind = "corrupt"    -> Raises("JSONDecodeError")
      [] file.kind = "json" ->
            LET data == FromJson(file.data)
            IN  IF IsDict(data) /\ Has(data, "conversations")
                THEN Returns(<<data.v["conversations"], Get(data, "metadata", None)>>)
                ELSE IF IsList(data) THEN Returns(<<data, None>>)
                ELSE Returns(<<List(<<>>), None>>)

\* len(x) is defined: x is a list, a dict or a str
HasLen(x) == x.ty \in {"list", "dict", "str"}

\* len(x)
LenOf(x) == IF x.ty = "dict" THEN Cardinality(DOMAIN x.v) ELSE Len(x.v)

\* A JSON answer, and the answer to an exception that leaves a handler
Json(request, status, body) ==
    [request |-> request, status |-> status, json |-> body]
ServerError(request) == [request |-> request, status |-> 500, json |-> None]
ErrorBody(text) == Dict([error |-> Str(<<text>>)])

\* The answer of get_conversation (app.py:87-92) to GET
\* /api/conversation/<index>; the int converter of the route matches no
\* negative number, so the router answers 404 itself.
get_conversation(index) ==
    LET request == [route |-> "conversation", index |-> index]
    IN  IF index < 0 THEN [request |-> request, status |-> 404, html |-> "Not Found"]
        ELSE IF ~HasLen(current_conversations) THEN ServerError(request)
        ELSE IF index < LenOf(current_conversations)
             THEN IF IsList(current_conversations)
                  THEN Json(request, 200, current_conversations.v[index + 1])
                  ELSE IF IsStr(current_conversations)
                  THEN Json(request, 200, Str(<<current_conversations.v[index + 1]>>))
                  ELSE ServerError(request)
        ELSE Json(request, 404, ErrorBody("Index out of range"))

GetConversation ==
    /\ \E index \in -1..MaxIndex : response' = get_conversation(index)
    /\ UNCHANGED <<current_conversations, current_file, current_metadata>>
    /\ UNCHANGED <<walk, flattener, cli, store, extras>>

\* index (app.py:79-85): what the landing page is rendered with
IndexPage ==
    IF HasLen(current_conversations)
    THEN [request |-> [route |-> "index"], status |-> 200,
          page |-> [total_conversations |-> LenOf(current_conversations),
                    current_file |-> current_file,
                    has_metadata |-> current_metadata # None]]
    ELSE ServerError([route |-> "index"])

Index ==
    /\ response' = IndexPage
    /\ UNCHANGED <<current_conversations, current_file, current_metadata>>
    /\ UNCHANGED <<walk, flattener, cli, store, extras>>

\* get_metadata (app.py:104-109)
get_metadata ==
    IF Truthy(current_metadata)
    THEN Json([route |-> "metadata"], 200, current_metadata)
    ELSE Json([route |-> "metadata"], 404, ErrorBody("No metadata available"))

GetMetadata ==
    /\ response' = get_metadata
    /\ UNCHANGED <<current_conversations, current_file, current_metadata>>
    /\ UNCHANGED <<walk, flattener, cli, store, extras>>

\* load_file (app.py:111-137) for POST /api/load-file with the given
\* file_path ("" when the body has none)
LoadFile ==
    /\ \E path \in ViewerPaths \cup {""} :
          LET request == [route |-> "load-file", file_path |-> path]
              unchanged == UNCHANGED <<current_conversations, current_file,
                                       current_metadata>>
          IN  IF path = ""
              THEN /\ response' = Json(request, 400, ErrorBody("No file path provided"))
                   /\ unchanged
              ELSE IF ViewerDisk[path].kind = "missing"
              THEN /\ response' = Json(request, 404, ErrorBody("File not found"))
                   /\ unchanged
              ELSE LET call == load_conversations_from_file(ViewerDisk[path])
                   IN  IF call.raised # ""
                       THEN /\ response' = Json(request, 500, ErrorBody(call.raised))
                            /\ unchanged
                       ELSE /\ current_conversations' = call.value[1]
                            /\ current_metadata' = call.value[2]
                            /\ current_file' = path
                            /\ response' =
                                 IF HasLen(call.value[1])
                                 THEN Json(request, 200,
                                           Dict([success |-> Bool(TRUE),
                                                 total_conversations |->
                                                     Num(LenOf(call.value[1])),
                                                 file |-> Str(<<path>>),
                                                 has_metadata |->
                                                     Bool(call.value[2] # None)]))
                                 ELSE Json(request, 500, ErrorBody("TypeError"))
    /\ UNCHANGED <<walk, flattener, cli, store, extras>>

\* The module is imported (app.py:75-77): the default file is loaded; when
\* that raises there is no viewer.
InitViewer ==
    /\ \E path \in ViewerPaths :
          LET call == load_conversations_from_file(ViewerDisk[path])
          IN  /\ call.raised = ""
              /\ current_file = path
              /\ current_conversations = call.value[1]
              /\ current_metadata = call.value[2]
    /\ response = None
    /\ WalkIdle
    /\ FlattenerIdle
    /\ CliIdle
    /\ StoreIdle
    /\ ExtrasIdle

NextViewer == GetConversation \/ LoadFile \/ Index \/ GetMetadata

SpecViewer == InitViewer /\ [][NextViewer]_vars

(* C20 as claimed: in every viewer state the answer to GET
   /api/conversation/{index} is the conversation at that position of the
   loaded list, with status 200, when 0 <= index < its length, and a 404
   with an error body otherwise; the request never fails. *)
C20_AsClaimed ==
    (response # None /\ response.request.route = "conversation") =>
        LET index == response.request.index
        IN  /\ response.status \in {200, 404}
            /\ IsList(current_conversations) =>
                 IF 0 <= index /\ index < Len(current_conversations.v)
                 THEN /\ response.status = 200
                      /\ response.json = current_conversations.v[index + 1]
                 ELSE response.status = 404

\* What the viewer holds: the three globals of app.py:9-11
Loaded == <<current_conversations, current_metadata, current_file>>

\* The three globals as a file's content gives them (app.py:128-129)
ContentOf(path) ==
    LET call == load_conversations_from_file(ViewerDisk[path])
    IN  <<call.value[1], call.value[2], path>>

(* C21 as claimed: a POST /api/load-file answered 200 leaves the viewer
   holding exactly the content of the file named, in place of what it held;
   one answered 400, 404 or 500 leaves conversations, metadata and current
   file unchanged. Hence after any sequence of requests the viewer holds the
   last successfully loaded file, or the initial dataset. *)
C21_AsClaimed ==
    [][(response'.request.route = "load-file") =>
          IF response'.status = 200
          THEN Loaded' = ContentOf(response'.request.file_path)
          ELSE /\ response'.status \in {400, 404, 500}
               /\ Loaded' = Loaded]_vars

-----------------------------------------------------------------------------
(* generate_output_filename (storage.py:111-132) *)

\* str(n) of an int, as the f-string of storage.py:123 formats it
RECURSIVE IntStr(_)
IntStr(n) ==
    IF n < 0 THEN <<"-">> \o IntStr(-n)
    ELSE IF n < 10 THEN <<DigitChars[n + 1]>>
    ELSE IntStr(n \div 10) \o <<DigitChars[(n % 10) + 1]>>

\* s.replace(ch, '') for a one-character ch
Without(s, ch) == SelectSeq(s, LAMBDA c : c # ch)

\* clean_model (storage.py:117)
CleanModel(model_name) == Without(Without(Without(model_name, ":"), "."), "-")

\* datetime.now().strftime('%m%d') (storage.py:114)
DateStr(date) == Pad2(date[1]) \o Pad2(date[2])

STR_convs_with_memories == <<"c", "o", "n", "v", "s", "_", "w", "i", "t", "h", "_", "m", "e", "m", "o", "r", "i", "e", "s", "_">>
STR_nsamples == <<"n", "s", "a", "m", "p", "l", "e", "s">>
STR_json == <<".", "j", "s", "o", "n">>
STR_data_prod == <<"d", "a", "t", "a", "/", "p", "r", "o", "d">>
STR_data_debug == <<"d", "a", "t", "a", "/", "d", "e", "b", "u", "g">>

\* "_".join(parts) (storage.py:131)
RECURSIVE JoinUnderscore(_)
JoinUnderscore(parts) ==
    IF Len(parts) = 1 THEN parts[1]
    ELSE parts[1] \o <<"_">> \o JoinUnderscore(Tail(parts))

\* directory (storage.py:126)
Directory(is_prod) == IF is_prod THEN STR_data_prod ELSE STR_data_debug

\* The path returned for the date of the call
generate_output_filename(model_name, n_samples, is_prod, date) ==
    LET date_str == DateStr(date)
        clean_model == CleanModel(model_name)
        first == STR_convs_with_memories \o date_str \o <<"_">> \o clean_model
        parts == IF Truthy(n_samples)
                 THEN <<first, STR_nsamples \o IntStr(n_samples.v)>>
                 ELSE <<first>>
        filename == JoinUnderscore(parts) \o STR_json
    IN  Directory(is_prod) \o <<"/">> \o filename

\* The model names given to the function
ModelNames == {<<"g", "p", "t", "-", "4">>, <<"g", "p", "t", "-", "4", ".", "1", "-", "m", "i", "n", "i">>, <<"o", "3", ":", "a">>}

\* The dates of a run, <<month, day>>
Dates == {<<1, 5>>, <<11, 5>>, <<12, 31>>}

\* One call generate_output_filename(model_name, n_samples, is_prod): the
\* directory is made when absent (storage.py:129) and the path returned.
GenerateOutputFilename ==
    /\ Len(named) < MaxCalls
    /\ \E model_name \in ModelNames, n_samples \in Samples, is_prod \in BOOLEAN :
          /\ directories' = directories \cup {Directory(is_prod)}
          /\ named' = Append(named,
                 [model_name |-> model_name, n_samples |-> n_samples,
                  is_prod |-> is_prod,
                  path |-> generate_output_filename(model_name, n_samples,
                                                    is_prod, today)])
    /\ UNCHANGED <<today, walk, flattener, cli, store, viewer, race, sampler>>

InitNamer ==
    /\ today \in Dates
    /\ directories \in SUBSET {STR_data_prod, STR_data_debug}
    /\ named = <<>>
    /\ WalkIdle
    /\ FlattenerIdle
    /\ CliIdle
    /\ StoreIdle
    /\ ViewerIdle
    /\ RaceIdle
    /\ SamplerIdle

NextNamer == GenerateOutputFilename

SpecNamer == InitNamer /\ [][NextNamer]_vars

\* The model name with every ':', '.' and '-' removed
WithoutPunctuation(model_name) ==
    SelectSeq(model_name, LAMBDA c : c \notin {":", ".", "-"})

\* The path the claim gives for a call on a date
ClaimedPath(call, date) ==
    (IF call.is_prod THEN STR_data_prod ELSE STR_data_debug) \o <<"/">>
    \o STR_convs_with_memories \o Pad2(date[1]) \o Pad2(date[2]) \o <<"_">>
    \o WithoutPunctuation(call.model_name)
    \o (IF call.n_samples # None
        THEN <<"_">> \o STR_nsamples \o IntStr(call.n_samples.v) ELSE <<>>)
    \o STR_json

(* C22 as claimed: on a fixed date every call of generate_output_filename
   returns the path data/prod or data/debug (by the prod flag, the directory
   existing afterwards), convs_with_memories_{MMDD}_{model without ':', '.',
   '-'}, then _nsamples{n} exactly when a sample count was given, then .json;
   equal arguments give equal paths. *)
C22_AsClaimed ==
    \A k \in 1..Len(named) :
        /\ named[k].path = ClaimedPath(named[k], today)
        /\ (IF named[k].is_prod THEN STR_data_prod ELSE STR_data_debug) \in directories

-----------------------------------------------------------------------------
(* Viewer requests served by concurrent threads (app.py:79-85, 127-135).
   app.run serves each request in its own thread, no lock guards the three
   globals, and the interpreter may switch threads between any two of the
   reads and writes below, each of which is one access to one global. *)

\* load_file has found the file and load_conversations_from_file has
\* returned (right-hand side of app.py:128).
SwitchBegin ==
    /\ switching.at = "idle"
    /\ \E path \in ViewerPaths :
          LET call == load_conversations_from_file(ViewerDisk[path])
          IN  /\ call.raised = ""
              /\ switching' = [at |-> "loaded", path |-> path,
                               conversations |-> call.value[1],
                               metadata |-> call.value[2]]
    /\ UNCHANGED <<viewer, reading, walk, flattener, cli, store, namer, sampler>>

\* The first store of app.py:128
SwitchStoreConversations ==
    /\ switching.at = "loaded"
    /\ current_conversations' = switching.conversations
    /\ switching' = [switching EXCEPT !.at = "conversations"]
    /\ UNCHANGED <<current_file, current_metadata, response, reading>>
    /\ UNCHANGED <<walk, flattener, cli, store, namer, sampler>>

\* The second store of app.py:128
SwitchStoreMetadata ==
    /\ switching.at = "conversations"
    /\ current_metadata' = switching.metadata
    /\ switching' = [switching EXCEPT !.at = "metadata"]
    /\ UNCHANGED <<current_conversations, current_file, response, reading>>
    /\ UNCHANGED <<walk, flattener, cli, store, namer, sampler>>

\* app.py:129, and the answer of load_file (app.py:130-137)
SwitchStoreFile ==
    /\ switching.at = "metadata"
    /\ current_file' = switching.path
    /\ switching' = [at |-> "idle"]
    /\ response' =
         LET request == [route |-> "load-file", file_path |-> switching.path]
         IN  IF HasLen(current_conversations)
             THEN Json(request, 200,
                       Dict([success |-> Bool(TRUE),
                             total_conversations |-> Num(LenOf(current_conversations)),
                             file |-> Str(<<switching.path>>),
                             has_metadata |-> Bool(current_metadata # None)]))
             ELSE Json(request, 500, ErrorBody("TypeError"))
    /\ UNCHANGED <<current_conversations, current_metadata, reading>>
    /\ UNCHANGED <<walk, flattener, cli, store, namer, sampler>>

\* index evaluates len(current_conversations) (app.py:83); a value without a
\* length ends the request as a server error.
IndexReadConversations ==
    /\ reading.at = "idle"
    /\ IF HasLen(current_conversations)
       THEN /\ reading' = [at |-> "total",
                           total_conversations |-> LenOf(current_conversations)]
            /\ UNCHANGED response
       ELSE /\ response' = ServerError([route |-> "index"])
            /\ UNCHANGED reading
    /\ UNCHANGED <<current_conversations, current_file, current_metadata, switching>>
    /\ UNCHANGED <<walk, flattener, cli, store, namer, sampler>>

\* index evaluates Path(current_file).name (app.py:84)
IndexReadFile ==
    /\ reading.at = "total"
    /\ reading' = [at |-> "file",
                   total_conversations |-> reading.total_conversations,
                   current_file |-> current_file]
    /\ UNCHANGED <<viewer, switching, walk, flattener, cli, store, namer, sampler>>

\* index evaluates current_metadata is not None (app.py:85) and renders.
IndexReadMetadata ==
    /\ reading.at = "file"
    /\ response' = [request |-> [route |-> "index"], status |-> 200,
                    page |-> [total_conversations |-> reading.total_conversations,
                              current_file |-> reading.current_file,
                              has_metadata |-> current_metadata # None]]
    /\ reading' = [at |-> "idle"]
    /\ UNCHANGED <<current_conversations, current_file, current_metadata, switching>>
    /\ UNCHANGED <<walk, flattener, cli, store, namer, sampler>>

InitRace ==
    /\ \E path \in ViewerPaths :
          LET call == load_conversations_from_file(ViewerDisk[path])
          IN  /\ call.raised = ""
              /\ current_file = path
              /\ current_conversations = call.value[1]
              /\ current_metadata = call.value[2]
    /\ response = None
    /\ RaceIdle
    /\ NamerIdle
    /\ SamplerIdle
    /\ WalkIdle
    /\ FlattenerIdle
    /\ CliIdle
    /\ StoreIdle

NextRace ==
    \/ SwitchBegin
    \/ SwitchStoreConversations
    \/ SwitchStoreMetadata
    \/ SwitchStoreFile
    \/ IndexReadConversations
    \/ IndexReadFile
    \/ IndexReadMetadata

SpecRace == InitRace /\ [][NextRace]_vars

\* The landing page that describes the dataset of one file
PageOf(path) ==
    LET content == ContentOf(path)
    IN  [total_conversations |-> LenOf(content[1]),
         current_file |-> path,
         has_metadata |-> content[2] # None]

\* The files whose dataset the viewer can hold and show
Datasets ==
    {path \in ViewerPaths :
        /\ load_conversations_from_file(ViewerDisk[path]).raised = ""
        /\ HasLen(ContentOf(path)[1])}

(* C23 as claimed: a landing page served while load-file requests are being
   handled describes one complete dataset: its conversation count, its file
   name and its has_metadata are those of one and the same file, never the
   conversations of one with the file name or the metadata of another. *)
C23_AsClaimed ==
    (response # None /\ response.request.route = "index" /\ response.status = 200)
        => \E path \in Datasets : response.page = PageOf(path)

-----------------------------------------------------------------------------
(* Two runs of main on the same archive and with the same --sample
   (__main__.py:72-95). The batch loop and the saving, which leave raw_data
   and seed as the sampling made them, are not followed here. *)

\* The run has sampled, or ended before: main is started again (a new
\* process, __main__.py:16) with the same --input, --sample and
\* --no-memories, with or without --prod.
Rerun ==
    /\ previous = None
    /\ mpc \in {"batch", "crashed", "exited"}
    /\ previous' = [args |-> args, seed |-> seed, raw_data |-> raw_data,
                    mpc |-> mpc]
    /\ \E prod \in BOOLEAN : args' = [args EXCEPT !.prod = prod]
    /\ raw_data' = None
    /\ seed' = None
    /\ exit_code' = None
    /\ mpc' = "load"
    /\ UNCHANGED <<input_file, conv_no, processed, msg_no,
                   processed_conversations, llm_calls, output_file, prng>>
    /\ UNCHANGED <<walk, flattener, store, viewer, namer, race>>

InitSample == InitMain

NextSample ==
    \/ Load \/ NoConversations \/ NoSampling \/ Sample \/ SampleRaises
    \/ Rerun

SpecSample == InitSample /\ [][NextSample]_vars

\* The conversations of the archive, in input order
InputConversations == FromJson(input_file.data).v

\* The run was given --prod and a sample count N >= 1, and has sampled.
ProdSampled ==
    /\ mpc = "batch"
    /\ args.prod
    /\ args.sample # None
    /\ args.sample.v >= 1

\* The sequence sel holds n conversations taken at distinct positions of all.
DistinctSelection(sel, all, n) ==
    /\ Len(sel) = n
    /\ \E pos \in [1..n -> 1..Len(all)] :
          /\ \A a, b \in 1..n : pos[a] = pos[b] => a = b
          /\ \A a \in 1..n : sel[a] = all[pos[a]]

(* C24: a run with --prod and --sample N, N >= 1, uses seed 42; a preceding
   run with --prod on the same archive and with the same N selected the same
   conversations in the same order; when N is at least the number of input
   conversations the run processes all of them in input order, and when
   N is smaller it processes exactly N input conversations taken at distinct
   positions. *)
C24_ProdSamplingRepeats ==
    ProdSampled =>
        /\ seed = Num(ProdSeed)
        /\ (previous # None /\ previous.args.prod) =>
              /\ previous.mpc = "batch"
              /\ previous.seed = Num(ProdSeed)
              /\ previous.raw_data = raw_data
        /\ IF args.sample.v >= Len(InputConversations)
           THEN raw_data.v = InputConversations
           ELSE DistinctSelection(raw_data.v, InputConversations, args.sample.v)

\* Both runs were made with --prod and --sample 1 on an archive of two
\* different conversations, and both selected the second.
C24_Witness ==
    /\ ProdSampled
    /\ previous # None
    /\ previous.args.prod
    /\ args.sample.v = 1
    /\ Len(InputConversations) = 2
    /\ InputConversations[1] # InputConversations[2]
    /\ raw_data.v = <<InputConversations[2]>>

-----------------------------------------------------------------------------
(* Memory extraction in the batch loop *)

\* The positions in llm_calls of the requests of one kind of conversation n
CallsAt(n, kind) ==
    {j \in 1..Len(llm_calls) : llm_calls[j].conv = n /\ llm_calls[j].kind = kind}

(* C25: every conversation of the processed list, which is what the run
   saves, has the memories key exactly when the run was made without
   --no-memories. With memories enabled exactly one memory-extraction request
   was sent for it, after all of its summarization requests, its prompt is
   the memory prompt followed by the newline-joined blocks of all its turns,
   and memories is the answer; with --no-memories no memory-extraction
   request is ever sent. *)
C25_MemoriesPerConversation ==
    /\ \A k \in 1..Len(processed_conversations) :
          LET conv == processed_conversations[k]
              n == Succeeded[k]
              turns == conv.v["turns"].v
          IN  /\ Has(conv, "memories") <=> ~args.no_memories
              /\ ~args.no_memories =>
                   /\ Cardinality(CallsAt(n, "memories")) = 1
                   /\ \A m \in CallsAt(n, "memories") :
                         /\ \A q \in CallsAt(n, "summarize") : q < m
                         /\ llm_calls[m].prompt =
                              Str(MEMORY_EXTRACTION_PROMPT
                                  \o JoinLines([j \in 1..Len(turns) |->
                                                   BlockOf(turns[j])]))
                         /\ conv.v["memories"] = llm_calls[m].answer
    /\ args # None /\ args.no_memories =>
          \A j \in 1..Len(llm_calls) : llm_calls[j].kind # "memories"
    /\ output_file # None =>
          output_file.v["conversations"].v = processed_conversations

\* A run with memories saved ConvA and ConvB: the memory request of ConvB
\* came after its two summarization requests.
C25_Witness ==
    /\ output_file # None
    /\ ~args.no_memories
    /\ raw_data.v = <<ConvA, ConvB>>
    /\ Len(output_file.v["conversations"].v) = 2
    /\ Cardinality(CallsAt(2, "summarize")) = 2
    /\ Cardinality(CallsAt(2, "memories")) = 1

-----------------------------------------------------------------------------
(* The two read paths: app.py:54-65 and storage.py:77-108 *)

(* C26 as claimed: for every file holding a JSON value (a bare array, an
   object with conversations, with or without metadata, an object without
   conversations, any other value) load_processed_conversations returns the
   pair that the viewer's load_conversations_from_file returns for it. *)
C26_AsClaimed ==
    (loaded # None /\ store_file.kind = "json") =>
        loaded = load_conversations_from_file(store_file)

-----------------------------------------------------------------------------
(* The raw conversation is read-only input *)

(* C27: while process_conversation_with_summaries and, inside it,
   extract_linear_conversation work on a raw conversation, the conversation
   they were given is the one the caller holds, and no step of either, the
   one that returns or raises included, changes it or any other conversation
   of the caller's list: mapping, nodes, messages and current_node stay as
   they were. *)
C27_RawConversationUnchanged ==
    /\ [](mpc = "process" => conversation_data = raw_data.v[conv_no])
    /\ [][mpc = "process" =>
             /\ conversation_data' = conversation_data
             /\ raw_data' = raw_data]_vars

\* Both functions have worked through ConvB: four records were extracted and
\* three turns built from them.
C27_Witness ==
    /\ mpc = "process"
    /\ pc = "done"
    /\ conversation_data = ConvB
    /\ Len(result.v) = 4
    /\ msg_no = 4
    /\ Len(processed.v["turns"].v) = 3

-----------------------------------------------------------------------------
(* The turns the pipeline builds *)

\* Every turn built so far: those of the conversation in work and those of
\* the conversations already processed
BuiltTurns ==
    (IF processed = None THEN {}
     ELSE {processed.v["turns"].v[j] : j \in 1..Len(processed.v["turns"].v)})
    \cup UNION {{processed_conversations[k].v["turns"].v[j] :
                    j \in 1..Len(processed_conversations[k].v["turns"].v)} :
                k \in 1..Len(processed_conversations)}

\* The keys of a turn
KeySet(t) == {t[j].key : j \in 1..Len(t)}

\* The turn t with its keys in every possible iteration order
Orderings(t) ==
    {[j \in 1..Len(t) |-> t[p[j]]] :
        p \in {q \in [1..Len(t) -> 1..Len(t)] :
                  \A a, b \in 1..Len(t) : q[a] = q[b] => a = b}}

(* C28: every turn built by process_conversation_with_summaries has exactly
   the keys {user} or exactly {assistant, summarised_conversation}, each
   once; flatten_turn of it is not the empty string, and is the same
   whatever the order in which its keys are iterated. *)
C28_PipelineTurns ==
    \A t \in BuiltTurns :
        /\ KeySet(t) \in {{"user"}, {"assistant", "summarised_conversation"}}
        /\ Len(t) = Cardinality(KeySet(t))
        /\ flatten_turn(t, "summarised_conversation") # Str(<<>>)
        /\ \A o \in Orderings(t) :
              flatten_turn(o, "summarised_conversation")
                  = flatten_turn(t, "summarised_conversation")

\* The run saved ConvB with its three turns, a user turn between two
\* assistant turns.
C28_Witness ==
    /\ output_file # None
    /\ raw_data.v = <<ConvB>>
    /\ Len(processed_conversations) = 1
    /\ Len(processed_conversations[1].v["turns"].v) = 3
    /\ KeySet(processed_conversations[1].v["turns"].v[2]) = {"user"}
    /\ KeySet(processed_conversations[1].v["turns"].v[3])
          = {"assistant", "summarised_conversation"}

-----------------------------------------------------------------------------
(* The viewer's reports about metadata *)

\* The answer r is a landing page or a successful load-file answer.
ReportsMetadata(r) ==
    /\ r # None
    /\ r.status = 200
    /\ r.request.route \in {"index", "load-file"}

\* The has_metadata it reports
HasMetadataIn(r) ==
    IF r.request.route = "index" THEN r.page.has_metadata
    ELSE r.json.v["has_metadata"] = Bool(TRUE)

(* C29 as claimed: when GET /api/metadata follows a landing page or a
   successful load-file answer, it returns the loaded metadata with status
   200 if that answer reported has_metadata = true, and 404 if it reported
   false. *)
C29_AsClaimed ==
    [][(ReportsMetadata(response) /\ response'.request.route = "metadata") =>
          IF HasMetadataIn(response)
          THEN /\ response'.status = 200
               /\ response'.json = current_metadata
          ELSE response'.status = 404]_vars

-----------------------------------------------------------------------------
(* The walk keeps no record of the nodes it has visited *)

\* The parent pointers from current_node never leave mapping: the chain
\* runs into a cycle.
OnCycle ==
    /\ Has(conversation_data, "mapping")
    /\ Len(Chain(conversation_data)) > NodeCount(conversation_data)

\* The iterations the loop has made on an acyclic conversation
Iterations == Len(Chain(conversation_data)) - Remaining

\* An iteration of the loop: the pointer moves to the parent.
Iterates == pc = "loop" /\ pc' = "loop" /\ current_node_id' # current_node_id

(* C30 as claimed: on a cycle of nodes that are all in mapping the call
   neither returns nor ends in any other way, the walk stays in its loop for
   ever; on an acyclic conversation every iteration visits a new node, and
   neither the iterations nor the records outnumber the nodes of mapping. *)
C30_AsClaimed ==
    /\ (OnCycle => pc = "loop")
    /\ Acyclic(conversation_data) =>
          /\ Iterations <= NodeCount(conversation_data)
          /\ Len(messages) <= Iterations

(* C30, amended: on a cycle of nodes that are all in mapping the call never
   returns; the walk stays in its loop, at a node of mapping, unless it is at
   a message with text or images but no author role, where the call raises
   KeyError. On an acyclic conversation every iteration visits a new node,
   and neither the iterations nor the records outnumber the nodes of
   mapping. *)
C30_CycleNeverReturns ==
    /\ [](OnCycle =>
            /\ pc # "done"
            /\ Truthy(NodeAt(conversation_data, current_node_id))
            /\ pc = "raised" =>
                 LET message_data ==
                         Get(NodeAt(conversation_data, current_node_id),
                             "message", None)
                 IN  Emits(message_data) /\ RoleMissing(message_data))
    /\ [](Acyclic(conversation_data) =>
            /\ Iterations <= NodeCount(conversation_data)
            /\ Len(messages) <= Iterations)
    /\ [][(Acyclic(conversation_data) /\ Iterates)
            => Iterations' = Iterations + 1]_vars

\* The walk on a cycle has collected more records than mapping has nodes
\* and is still in its loop.
C30_Witness ==
    /\ OnCycle
    /\ pc = "loop"
    /\ Len(messages) > NodeCount(conversation_data)

====
